---- MODULE Spec2Model ----
(***************************************************************************)
(* WorkflowDashboard (src/unnamed/part_000): the workflows and executions  *)
(* React state, the requests in flight, and the execution status poller    *)
(* (executeWorkflow / pollExecutionStatus).                                *)
(*                                                                         *)
(* JavaScript objects are functions whose DOMAIN is the set of keys the    *)
(* object carries; every value is a string.  The backend is the            *)
(* environment: it answers a request with any payload of the shape the     *)
(* call site reads, or the request rejects.                                *)
(***************************************************************************)
EXTENDS Naturals, Sequences, FiniteSets, TLC

\* ------------------------------------------------------------------ bounds
MaxWorkflows == 1       \* createWorkflowFromTemplate calls in one run
MaxStarts == 1          \* direct calls of pollExecutionStatus in one run
MaxTicks == 1           \* ticks of the 5 second refresh interval in one run
MaxMerges == 2          \* merges of one response into one record
MaxInflight == 2        \* requests of the views in flight at once
MaxRetries == 2         \* clicks on the dashboard's Try Again in one run
MaxUpdates == 2         \* updateAgentStatus calls in one run
MaxRefreshes == 1       \* refreshAgents calls in one run
MaxSelects == 3         \* tab and Refresh clicks in one run
MaxGenerates == 3       \* handleGenerateCode calls in one run
MaxAdds == 2            \* addIntegration calls in one run
MaxCalls == 3           \* create and delete calls on the two lists in one run

\* --------------------------------------------------------------- constants
NonTerminal == {"pending", "running"}
Terminal == {"completed", "failed", "cancelled"}
Statuses == NonTerminal \cup Terminal

ABSENT == "<absent>"          \* the key is not in the payload
UNDEFINED == "<undefined>"    \* reading a key an object does not carry
NULL == "<null>"              \* JSON null

TemplateNames == {"Deploy"}
\* ids the backend assigns, in the order it assigns them
WorkflowIds == <<"w1", "w2", "w3">>
ExecutionIds == <<"e1", "e2">>
WorkflowId(n) == WorkflowIds[n]
ExecutionId(n) == ExecutionIds[n]
UnknownWorkflow == "w0"       \* a workflowId no created workflow has
ForeignExecution == "e0"      \* an execution id executeWorkflow never cached
ExecIds == {ExecutionIds[n] : n \in DOMAIN ExecutionIds}
PollIds == ExecIds \cup {ForeignExecution}

\* ------------------------------------------------------------------- state
VARIABLES
  workflows,     \* useState([]) line 26
  executions,    \* useState([]) line 27
  createReqs,    \* POST /workflows requests in flight
  execReqs,      \* POST /workflows/{id}/execute requests in flight
  fetches,       \* GET /workflows/{executionId}/status in flight, per id
  timers,        \* setTimeout(pollExecutionStatus, 3000) pending, per id
  nCreate,       \* createWorkflowFromTemplate calls so far
  nExec,         \* executeWorkflow calls so far
  nStart,        \* direct pollExecutionStatus calls so far
  toasts,        \* toast.success / toast.error calls so far, per message
  rejections,    \* handler promises that rejected to their caller
  lastStatus,    \* per id: status of the latest settled status fetch
  e2e,           \* per id: progress along pending, running, completed
  mounted,       \* the view is mounted: the effect of line 35 ran, no cleanup yet
  ticks,         \* ticks of setInterval(fetchExecutions, 5000) so far
  refreshReqs,   \* requests fetchExecutions issued
  firedUnmounted, \* a poll timeout fired after the view unmounted
  cached,        \* the merge alone: the record before the merge
  polled,        \* the merge alone: the executionId polled
  response,      \* the merge alone: response.data
  merged,        \* the merge alone: the record after each merge so far
  inflight,      \* call sites of all views with a request in flight
  lastFail,      \* what the catch block of the latest failed request did
  health,        \* Dashboard: GET /health of testConnection
  loading,       \* Dashboard: useState(true) line 866
  error,         \* Dashboard: useState(null) line 867
  analytics,     \* Dashboard: analytics, agents, projects (set together)
  dataReqs,      \* Dashboard: the three requests of the latest Promise.all
  retries,       \* Dashboard: clicks on Try Again so far
  dashToasts,    \* Dashboard: toast.error calls so far
  agents,        \* AgentDashboard: useState([]) line 23
  agentsLoading, \* AgentDashboard: loading, useState(true) line 24
  refreshing,    \* AgentDashboard: useState(false) line 25
  agentsFetch,   \* AgentDashboard: the caller of the GET /agents in flight
  statusReqs,    \* AgentDashboard: POST /agents/{id}/status in flight
  nUpdates,      \* AgentDashboard: updateAgentStatus calls so far
  nRefreshes,    \* AgentDashboard: refreshAgents calls so far
  agentsToast,   \* AgentDashboard: the notifications of the latest handler
  lists,         \* ProjectGallery: projects; BlueprintCreator: blueprints
  listLoading,   \* per list: loading, useState(true)
  crudReqs,      \* per list: POST and DELETE requests in flight
  calls,         \* per list: the create and delete calls so far, in order
  crudToast,     \* per list: the latest notification
  created,       \* per list: ids of the items a POST created
  deleted,       \* per list: ids of the items a DELETE removed
  crudFailed,    \* per list: a POST or DELETE has failed
  searchTerm,    \* ProjectGallery: useState('') line 28, a sequence of characters
  filterStatus,  \* ProjectGallery: useState('all') line 29
  showAddModal,  \* APIGateway: useState(false) line 32
  newIntegration, \* APIGateway: the form, useState({...}) lines 33-39
  addReqs,       \* APIGateway: bodies of the POST /gateway/integrations in flight
  integFetches,  \* APIGateway: GET /gateway/integrations in flight
  nAdds,         \* APIGateway: addIntegration calls so far
  gatewayToast,  \* APIGateway: the latest notification
  dashboards,         \* EnterpriseAnalytics: useState([]) line 508
  selectedDashboard,  \* EnterpriseAnalytics: useState(null) line 509
  dashboardData,      \* EnterpriseAnalytics: useState(null) line 510
  dashboardsFetch,    \* EnterpriseAnalytics: GET /analytics/dashboards in flight
  dashboardReqs,      \* EnterpriseAnalytics: GET /analytics/dashboards/{id} in flight, per id
  analyticsRefreshing, \* EnterpriseAnalytics: useState(false) line 513
  nSelects,           \* EnterpriseAnalytics: tab and Refresh clicks so far
  dashboardFailed,    \* observer: some dashboard request was rejected
  analyticsToast,     \* EnterpriseAnalytics: the latest notification
  blueprint,      \* AIHub: useState('') line 430, a string of characters
  generating,     \* AIHub: useState(false) line 434
  generatedCode,  \* AIHub: useState(null) line 435
  showResults,    \* AIHub: useState(false) line 436
  generateReqs,   \* AIHub: POST /ai/generate-code-advanced in flight, by description
  nGenerates,     \* AIHub: handleGenerateCode calls so far
  aiToast,        \* AIHub: the latest notification
  sidebarOpen,    \* App: useState(false) line 38
  currentView,    \* App: useState('landing') line 39
  darkMode,       \* App: useState(false) line 40
  lastClick,      \* observer: the control of App clicked last
  renderedViews   \* observer: the components App has rendered as its page

wfVars == <<workflows, executions, createReqs, execReqs, fetches, timers,
            nCreate, nExec, nStart, toasts, rejections, lastStatus, e2e>>
mountVars == <<mounted, ticks, refreshReqs, firedUnmounted>>

mergeVars == <<cached, polled, response, merged>>
failVars == <<inflight, lastFail>>
dashVars == <<health, loading, error, analytics, dataReqs, retries, dashToasts>>
agentVars == <<agents, agentsLoading, refreshing, agentsFetch, statusReqs,
               nUpdates, nRefreshes, agentsToast>>
listVars == <<lists, listLoading, crudReqs, calls, crudToast, created, deleted,
              crudFailed>>
filterVars == <<searchTerm, filterStatus>>
gatewayVars == <<showAddModal, newIntegration, addReqs, integFetches, nAdds,
                 gatewayToast>>
analyticsVars == <<dashboards, selectedDashboard, dashboardData,
                   dashboardsFetch, dashboardReqs, analyticsRefreshing,
                   nSelects, dashboardFailed, analyticsToast>>
aiHubVars == <<blueprint, generating, generatedCode, showResults, generateReqs,
               nGenerates, aiToast>>
appVars == <<sidebarOpen, currentView, darkMode, lastClick, renderedViews>>
featureVars == <<agentVars, listVars, filterVars, gatewayVars, analyticsVars,
                 aiHubVars, appVars>>
viewVars == <<mergeVars, failVars, dashVars, featureVars>>
\* the state of the views modelled before the features
coreVars == <<wfVars, mountVars, mergeVars, failVars, dashVars>>
otherThanAgents == <<coreVars, listVars, filterVars, gatewayVars,
                     analyticsVars, aiHubVars, appVars>>
otherThanLists == <<coreVars, agentVars, filterVars, gatewayVars,
                    analyticsVars, aiHubVars, appVars>>
otherThanFilter == <<coreVars, agentVars, listVars, gatewayVars, analyticsVars,
                     aiHubVars, appVars>>
otherThanGateway == <<coreVars, agentVars, listVars, filterVars, analyticsVars,
                      aiHubVars, appVars>>
otherThanAnalytics == <<coreVars, agentVars, listVars, filterVars, gatewayVars,
                        aiHubVars, appVars>>
otherThanAIHub == <<coreVars, agentVars, listVars, filterVars, gatewayVars,
                    analyticsVars, appVars>>
otherThanApp == <<coreVars, agentVars, listVars, filterVars, gatewayVars,
                  analyticsVars, aiHubVars>>
vars == <<wfVars, mountVars, viewVars>>

\* ---------------------------------------------------------- object helpers
\* obj.key, undefined when the object does not carry the key
Get(obj, key) == IF key \in DOMAIN obj THEN obj[key] ELSE UNDEFINED

\* { ...a, ...b }
Spread(a, b) ==
  [k \in DOMAIN a \cup DOMAIN b |-> IF k \in DOMAIN b THEN b[k] ELSE a[k]]

\* an object literal with the keys of f whose value is not ABSENT
Obj(f) == [k \in {x \in DOMAIN f : f[x] # ABSENT} |-> f[k]]

\* xs.map(fn) for the update function of line 113
RECURSIVE MapSeq(_, _, _)
MapSeq(xs, id, data) ==
  IF xs = <<>> THEN <<>>
  ELSE <<IF Get(Head(xs), "execution_id") = id
           THEN Spread(Head(xs), data)
           ELSE Head(xs)>> \o MapSeq(Tail(xs), id, data)

\* mutant: the response is merged into every record
MergeStatusAll(prev, executionId, data) ==
  [i \in 1..Len(prev) |-> Spread(prev[i], data)]

\* mutant: the spread is the wrong way round, the cached fields win
MergeStatusKeepOld(prev, executionId, data) ==
  [i \in 1..Len(prev) |->
     IF Get(prev[i], "execution_id") = executionId
       THEN Spread(data, prev[i]) ELSE prev[i]]

\* mutant: a record whose execution ended is removed from the list
MergeStatusPrune(prev, executionId, data) ==
  IF Get(data, "status") \in {"completed", "failed", "cancelled"}
    THEN SelectSeq(prev, LAMBDA r : Get(r, "execution_id") # executionId)
    ELSE MapSeq(prev, executionId, data)

\* mutant: transitions are validated, a terminal record takes no response
MergeStatusValidated(prev, executionId, data) ==
  [i \in 1..Len(prev) |->
     IF /\ Get(prev[i], "execution_id") = executionId
        /\ Get(prev[i], "status") \notin {"completed", "failed", "cancelled"}
       THEN Spread(prev[i], data) ELSE prev[i]]

\* mutant: a response that matches no record is inserted (upsert)
MergeStatusUpsert(prev, executionId, data) ==
  IF \E i \in 1..Len(prev) : Get(prev[i], "execution_id") = executionId
    THEN MapSeq(prev, executionId, data)
    ELSE <<data>> \o prev

\* setExecutions(prev => prev.map(exec => exec.execution_id === executionId
\*                                   ? { ...exec, ...response.data } : exec))
MergeStatus(prev, executionId, data) == MapSeq(prev, executionId, data)

\* mutant: polling goes on unless the execution completed
ContinueUnlessCompleted(data) == Get(data, "status") # "completed"

\* mutant: pending is forgotten
ContinueOnlyRunning(data) == Get(data, "status") = "running"

\* mutant: polling never stops
ContinueAlways(data) == TRUE

\* response.data.status === 'running' || response.data.status === 'pending'
ContinuePolling(data) ==
  Get(data, "status") = "running" \/ Get(data, "status") = "pending"

\* workflows.find(w => w.workflow_id === workflowId)?.name || 'Unknown'
WorkflowName(wfs, workflowId) ==
  IF \E i \in 1..Len(wfs) : wfs[i].workflow_id = workflowId
    THEN LET i == CHOOSE j \in 1..Len(wfs) :
                    /\ wfs[j].workflow_id = workflowId
                    /\ \A k \in 1..(j - 1) : wfs[k].workflow_id # workflowId
         IN wfs[i].name
    ELSE "Unknown"

\* { ...response.data, workflow_name: ... }
NewExecution(data, wfs, workflowId) ==
  Spread(data, [workflow_name |-> WorkflowName(wfs, workflowId)])

\* --------------------------------------------------------------- payloads
\* GET /workflows/{executionId}/status: fields to merge into the record
StatusData(id) ==
  { Obj([execution_id |-> id, status |-> s, completed_at |-> c,
         error_message |-> IF s = "failed" THEN "err" ELSE ABSENT]) :
      s \in Statuses \cup {ABSENT}, c \in {ABSENT, "t1"} }

\* POST /workflows/{workflowId}/execute: { execution_id, ... }
ExecuteData(id, workflowId) ==
  { Obj([execution_id |-> id, workflow_id |-> workflowId, status |-> s,
         completed_at |-> IF s \in Terminal THEN "t1" ELSE ABSENT,
         error_message |-> IF s = "failed" THEN "err" ELSE ABSENT]) :
      s \in Statuses }

\* ------------------------------------------------------------- observers
ToastMessages ==
  {"success:Workflow created successfully!", "error:Failed to create workflow",
   "success:Workflow execution started!", "error:Failed to execute workflow"}

\* toast.success(msg) / toast.error(msg)
Toast(t, msg) == [t EXCEPT ![msg] = @ + 1]

\* the observers follow the executions executeWorkflow started
Observe(f, id, v) == IF id \in DOMAIN f THEN [f EXCEPT ![id] = v] ELSE f

\* progress of an id's status responses along pending, running, completed:
\* "3" when the completed response carried a completed_at, "3n" when not
E2EStep(p, data) ==
  LET s == Get(data, "status") IN
  IF p = "0" /\ s = "pending" THEN "1"
  ELSE IF p = "1" /\ s = "running" THEN "2"
  ELSE IF p = "2" /\ s = "completed"
    THEN IF Get(data, "completed_at") \in {UNDEFINED, NULL} THEN "3n" ELSE "3"
  ELSE "off"

\* -------------------------------------------------------------------- Init
InitWorkflowDashboard ==
  /\ workflows = <<>>
  /\ executions = <<>>
  /\ createReqs = {}
  /\ execReqs = {}
  /\ fetches = [id \in PollIds |-> 0]
  /\ timers = [id \in PollIds |-> 0]
  /\ nCreate = 0
  /\ nExec = 0
  /\ nStart = 0
  /\ toasts = [m \in ToastMessages |-> 0]
  /\ rejections = 0
  /\ lastStatus = [id \in ExecIds |-> "none"]
  /\ e2e = [id \in ExecIds |-> "0"]
  /\ mounted = TRUE
  /\ ticks = 0
  /\ refreshReqs = 0
  /\ firedUnmounted = FALSE

\* no merge is looked at on its own
InitMergeIdle ==
  /\ cached = <<>>
  /\ polled = UNDEFINED
  /\ response = <<>>
  /\ merged = <<>>

\* what a catch block does: console.error, toast.error, setError
Catch(log, toast, err) == [log |-> log, toast |-> toast, error |-> err]

\* every function that awaits a request, with its catch block (the lines)
\* src/unnamed/part_000
WorkflowDashboardCatch ==
     "WorkflowDashboard.fetchTemplates" :> Catch(TRUE, TRUE, FALSE)              \* 60-63
  @@ "WorkflowDashboard.createWorkflowFromTemplate" :> Catch(TRUE, TRUE, FALSE)  \* 82-85
  @@ "WorkflowDashboard.executeWorkflow" :> Catch(TRUE, TRUE, FALSE)             \* 102-105
  @@ "WorkflowDashboard.pollExecutionStatus" :> Catch(TRUE, FALSE, FALSE)        \* 124-126

\* src/frontend/src/components/APIGateway.js
APIGatewayCatch ==
     "APIGateway.fetchIntegrations" :> Catch(TRUE, TRUE, FALSE)                  \* 74-77
  @@ "APIGateway.fetchHealthChecks" :> Catch(TRUE, FALSE, FALSE)                 \* 84-86
  @@ "APIGateway.fetchGatewayStats" :> Catch(TRUE, FALSE, FALSE)                 \* 93-95
  @@ "APIGateway.addIntegration" :> Catch(TRUE, TRUE, FALSE)                     \* 133-136

\* src/frontend/src/components/ProjectGallery.js
ProjectGalleryCatch ==
     "ProjectGallery.fetchProjects" :> Catch(TRUE, TRUE, FALSE)                  \* 49-52
  @@ "ProjectGallery.createProject" :> Catch(TRUE, TRUE, FALSE)                  \* 63-66
  @@ "ProjectGallery.deleteProject" :> Catch(TRUE, TRUE, FALSE)                  \* 78-81
  @@ "EnterpriseAnalytics.fetchDashboards" :> Catch(TRUE, TRUE, FALSE)           \* 543-546
  @@ "EnterpriseAnalytics.fetchDashboardData" :> Catch(TRUE, TRUE, FALSE)        \* 556-559
  @@ "EnterpriseAnalytics.fetchRealTimeMetrics" :> Catch(TRUE, FALSE, FALSE)     \* 568-570

\* src/frontend/src/components/BlueprintCreator.js
BlueprintCreatorCatch ==
     "BlueprintCreator.fetchBlueprints" :> Catch(TRUE, TRUE, FALSE)              \* 42-45
  @@ "BlueprintCreator.createBlueprint" :> Catch(TRUE, TRUE, FALSE)              \* 59-62
  @@ "BlueprintCreator.deleteBlueprint" :> Catch(TRUE, TRUE, FALSE)              \* 74-77
  @@ "BlueprintCreator.generateCode" :> Catch(TRUE, TRUE, FALSE)                 \* 90-93
  @@ "AIHub.fetchProviders" :> Catch(TRUE, TRUE, FALSE)                          \* 448-451
  @@ "AIHub.handleGenerateCode" :> Catch(TRUE, TRUE, FALSE)                      \* 483-486
  @@ "Dashboard.testConnection" :> Catch(TRUE, FALSE, TRUE)                      \* 878-882
  @@ "Dashboard.fetchDashboardData" :> Catch(TRUE, TRUE, TRUE)                   \* 905-909

\* src/frontend/src/components/AgentDashboard.js
AgentDashboardCatch ==
     "AgentDashboard.fetchAgents" :> Catch(TRUE, TRUE, FALSE)                    \* 40-43
  @@ "AgentDashboard.updateAgentStatus" :> Catch(TRUE, TRUE, FALSE)              \* 75-78

CatchBlocks ==
  WorkflowDashboardCatch @@ APIGatewayCatch @@ ProjectGalleryCatch
    @@ BlueprintCreatorCatch @@ AgentDashboardCatch

Sites == DOMAIN CatchBlocks

NoFail == [site |-> "none", log |-> FALSE, toast |-> FALSE, error |-> FALSE]

\* no request of the views in flight, nothing failed
InitFailures ==
  /\ inflight = {}
  /\ lastFail = NoFail

DataEndpoints == {"analytics", "agents", "projects"}

ConnectError ==
  "Cannot connect to backend API. Please ensure the backend service is running."

LoadError == "Failed to load dashboard data. Please check your connection."

\* Dashboard, lines 863-886: useState initial values; the effect has called
\* testConnection, GET /health is in flight
InitDashboard ==
  /\ health = "pending"
  /\ loading = TRUE
  /\ error = NULL
  /\ analytics = NULL
  /\ dataReqs = [r \in DataEndpoints |-> "idle"]
  /\ retries = 0
  /\ dashToasts = 0

\* AgentDashboard, lines 23-31: useState initial values; the effect has
\* called fetchAgents, GET /agents is in flight
InitAgents ==
  /\ agents = <<>>
  /\ agentsLoading = TRUE
  /\ refreshing = FALSE
  /\ agentsFetch = "mount"
  /\ statusReqs = {}
  /\ nUpdates = 0
  /\ nRefreshes = 0
  /\ agentsToast = <<>>

\* the two lists kept the same way: projects in ProjectGallery, blueprints
\* in BlueprintCreator
Views == {"projects", "blueprints"}

\* ProjectGallery lines 26-38, BlueprintCreator lines 21-35: useState initial
\* values; the effect has called fetchProjects / fetchBlueprints
InitLists ==
  /\ lists = [v \in Views |-> <<>>]
  /\ listLoading = [v \in Views |-> TRUE]
  /\ crudReqs = [v \in Views |-> {}]
  /\ calls = [v \in Views |-> <<>>]
  /\ crudToast = [v \in Views |-> "none"]
  /\ created = [v \in Views |-> {}]
  /\ deleted = [v \in Views |-> {}]
  /\ crudFailed = [v \in Views |-> FALSE]

\* ProjectGallery lines 28-29
InitFilter ==
  /\ searchTerm = <<>>
  /\ filterStatus = "all"

\* APIGateway lines 33-39 and 124-130: the empty form
EmptyForm ==
  [name |-> <<>>, type |-> "rest_api", base_url |-> "",
   auth_type |-> "bearer_token", api_key |-> ""]

\* APIGateway lines 28-39; the requests of the mount effect are left out
InitGateway ==
  /\ showAddModal = FALSE
  /\ newIntegration = EmptyForm
  /\ addReqs = {}
  /\ integFetches = 0
  /\ nAdds = 0
  /\ gatewayToast = "none"

\* the dashboards the backend lists, and what it answers for each
DashboardList == <<"d1", "d2", "d3">>
DashboardIds == { DashboardList[i] : i \in 1..Len(DashboardList) }
DashboardResponse(id) == [dashboard_id |-> id]

\* EnterpriseAnalytics lines 508-514 and the mount effect of lines 518-525:
\* fetchDashboards() is in flight
InitAnalytics ==
  /\ dashboards = <<>>
  /\ selectedDashboard = NULL
  /\ dashboardData = NULL
  /\ dashboardsFetch = TRUE
  /\ dashboardReqs = [id \in DashboardIds |-> 0]
  /\ analyticsRefreshing = FALSE
  /\ nSelects = 0
  /\ dashboardFailed = FALSE
  /\ analyticsToast = "none"

\* AIHub lines 428-436
InitAIHub ==
  /\ blueprint = <<>>
  /\ generating = FALSE
  /\ generatedCode = NULL
  /\ showResults = FALSE
  /\ generateReqs = {}
  /\ nGenerates = 0
  /\ aiToast = "none"

\* mutant: the navigation also lists the four later views
NavigationWithLaterViews ==
  <<"landing", "dashboard", "agents", "blueprints", "editor", "projects",
    "ai-hub", "workflows", "analytics", "gateway">>

\* App lines 50-57: the views of the navigation items
Navigation == <<"landing", "dashboard", "agents", "blueprints", "editor", "projects">>

\* lines 59-76: renderCurrentView
RenderCurrentView(view) ==
  CASE view = "landing" -> "Landing"
    [] view = "dashboard" -> "Dashboard"
    [] view = "agents" -> "AgentDashboard"
    [] view = "blueprints" -> "BlueprintCreator"
    [] view = "editor" -> "CodeEditor"
    [] view = "projects" -> "ProjectGallery"
    [] OTHER -> "Landing"

\* lines 78-85 and 176: the page App shows for a view
RenderApp(view) == IF view = "landing" THEN "Landing" ELSE RenderCurrentView(view)

\* App lines 38-40 and the first render
InitApp ==
  /\ sidebarOpen = FALSE
  /\ currentView = "landing"
  /\ darkMode = FALSE
  /\ lastClick = "none"
  /\ renderedViews = {RenderApp("landing")}

InitFeatures ==
  /\ InitAgents /\ InitLists /\ InitFilter /\ InitGateway /\ InitAnalytics
  /\ InitAIHub /\ InitApp

Init ==
  /\ InitWorkflowDashboard
  /\ InitMergeIdle
  /\ InitFailures
  /\ InitDashboard
  /\ InitFeatures

\* ----------------------------------------------- createWorkflowFromTemplate
\* line 73: axios.post(`/workflows`, {name: template.name, ...})
CreateWorkflowCall(template) ==
  /\ mounted
  /\ nCreate < MaxWorkflows
  /\ nCreate' = nCreate + 1
  /\ createReqs' = createReqs \cup {[n |-> nCreate + 1, template |-> template]}
  /\ UNCHANGED <<toasts, rejections, nStart>>
  /\ UNCHANGED <<workflows, executions, execReqs, fetches, timers, nExec,
                 lastStatus, e2e>>
  /\ UNCHANGED <<mountVars, viewVars>>

\* lines 80-81: toast.success, setWorkflows(prev => [...prev, response.data])
CreateWorkflowOk(req) ==
  /\ req \in createReqs
  /\ createReqs' = createReqs \ {req}
  /\ workflows' = Append(workflows,
                         [workflow_id |-> WorkflowId(req.n), name |-> req.template])
  /\ toasts' = Toast(toasts, "success:Workflow created successfully!")
  /\ UNCHANGED <<rejections, nStart>>
  /\ UNCHANGED <<executions, execReqs, fetches, timers, nCreate, nExec,
                 lastStatus, e2e>>
  /\ UNCHANGED <<mountVars, viewVars>>

\* lines 82-85: catch: console.error, toast.error
CreateWorkflowFail(req) ==
  /\ req \in createReqs
  /\ createReqs' = createReqs \ {req}
  /\ toasts' = Toast(toasts, "error:Failed to create workflow")
  /\ UNCHANGED <<rejections, nStart>>
  /\ UNCHANGED <<workflows, executions, execReqs, fetches, timers, nCreate, nExec,
                 lastStatus, e2e>>
  /\ UNCHANGED <<mountVars, viewVars>>

\* ---------------------------------------------------------- executeWorkflow
\* line 90: axios.post(`/workflows/${workflowId}/execute`, context); the
\* closure keeps the workflows array of the render that made it
ExecuteCall(workflowId) ==
  /\ mounted
  /\ nExec < Len(ExecutionIds)
  /\ nExec' = nExec + 1
  /\ execReqs' = execReqs \cup
       {[n |-> nExec + 1, workflow_id |-> workflowId, wfs |-> workflows]}
  /\ UNCHANGED <<toasts, rejections, nStart>>
  /\ UNCHANGED <<workflows, executions, createReqs, fetches, timers, nCreate,
                 lastStatus, e2e>>
  /\ UNCHANGED <<mountVars, viewVars>>

\* a call of pollExecutionStatus up to its await (line 110): one GET issued
IssueFetch(f, id) == [f EXCEPT ![id] = @ + 1]

\* mutant: the poll is started without caching the record
ExecuteOkPollsOnly(req, data) ==
  /\ req \in execReqs
  /\ data \in ExecuteData(ExecutionId(req.n), req.workflow_id)
  /\ execReqs' = execReqs \ {req}
  /\ fetches' = IssueFetch(fetches, Get(data, "execution_id"))
  /\ toasts' = Toast(toasts, "success:Workflow execution started!")
  /\ UNCHANGED <<executions, rejections, nStart>>
  /\ UNCHANGED <<workflows, createReqs, timers, nCreate, nExec, lastStatus, e2e>>
  /\ UNCHANGED <<mountVars, viewVars>>

\* lines 92-101: newExecution, setExecutions(prev => [newExecution, ...prev]),
\* toast.success, pollExecutionStatus(response.data.execution_id)
ExecuteOk(req, data) ==
  /\ req \in execReqs
  /\ data \in ExecuteData(ExecutionId(req.n), req.workflow_id)
  /\ execReqs' = execReqs \ {req}
  /\ executions' = <<NewExecution(data, req.wfs, req.workflow_id)>> \o executions
  /\ fetches' = IssueFetch(fetches, Get(data, "execution_id"))
  /\ toasts' = Toast(toasts, "success:Workflow execution started!")
  /\ UNCHANGED <<rejections, nStart>>
  /\ UNCHANGED <<workflows, createReqs, timers, nCreate, nExec, lastStatus, e2e>>
  /\ UNCHANGED <<mountVars, viewVars>>

\* mutant: the catch block caches a failed record and polls it
ExecuteFailCaches(req) ==
  /\ req \in execReqs
  /\ execReqs' = execReqs \ {req}
  /\ executions' = <<[execution_id |-> ExecutionId(req.n), status |-> "failed"]>>
                      \o executions
  /\ fetches' = [fetches EXCEPT ![ExecutionId(req.n)] = @ + 1]
  /\ toasts' = [toasts EXCEPT !["error:Failed to execute workflow"] = @ + 1]
  /\ UNCHANGED <<workflows, createReqs, timers, nCreate, nExec, nStart,
                 rejections, lastStatus, e2e, mountVars, viewVars>>

\* lines 102-105: catch: console.error, toast.error
ExecuteFail(req) ==
  /\ req \in execReqs
  /\ execReqs' = execReqs \ {req}
  /\ toasts' = Toast(toasts, "error:Failed to execute workflow")
  /\ UNCHANGED <<rejections, nStart>>
  /\ UNCHANGED <<workflows, executions, createReqs, fetches, timers, nCreate,
                 nExec, lastStatus, e2e>>
  /\ UNCHANGED <<mountVars, viewVars>>

\* ------------------------------------------------------ pollExecutionStatus
\* mutant: the timeout is armed twice
ArmTimerTwice(t, id) == [t EXCEPT ![id] = @ + 2]

\* line 122: setTimeout(() => pollExecutionStatus(executionId), 3000)
ArmTimer(t, id) == [t EXCEPT ![id] = @ + 1]

\* lines 110-123: the status fetch for id resolves with response.data = data
PollOk(id, data) ==
  /\ fetches[id] > 0
  /\ data \in StatusData(id)
  /\ executions' = MergeStatus(executions, id, data)
  /\ fetches' = [fetches EXCEPT ![id] = @ - 1]
  /\ timers' = IF ContinuePolling(data) THEN ArmTimer(timers, id) ELSE timers
  /\ UNCHANGED <<toasts, rejections, nStart>>
  /\ lastStatus' = Observe(lastStatus, id, Get(data, "status"))
  /\ e2e' = Observe(e2e, id, E2EStep(Get(e2e, id), data))
  /\ UNCHANGED <<workflows, createReqs, execReqs, nCreate, nExec>>
  /\ UNCHANGED <<mountVars, viewVars>>

\* mutant: the catch block retries after the delay
PollFailRetry(id) ==
  /\ fetches[id] > 0
  /\ fetches' = [fetches EXCEPT ![id] = @ - 1]
  /\ timers' = [timers EXCEPT ![id] = @ + 1]
  /\ lastStatus' = Observe(lastStatus, id, "rejected")
  /\ e2e' = Observe(e2e, id, "off")
  /\ UNCHANGED <<workflows, executions, createReqs, execReqs, nCreate, nExec,
                 toasts, rejections, nStart>>
  /\ UNCHANGED <<mountVars, viewVars>>

\* lines 124-126: the status fetch for id rejects: catch, console.error
PollFail(id) ==
  /\ fetches[id] > 0
  /\ fetches' = [fetches EXCEPT ![id] = @ - 1]
  /\ UNCHANGED <<toasts, rejections, nStart>>
  /\ lastStatus' = Observe(lastStatus, id, "rejected")
  /\ e2e' = Observe(e2e, id, "off")
  /\ UNCHANGED <<workflows, executions, createReqs, execReqs, timers, nCreate,
                 nExec>>
  /\ UNCHANGED <<mountVars, viewVars>>

\* mutant: setInterval instead of setTimeout, the timer stays armed
TimerFireInterval(id) ==
  /\ timers[id] > 0
  /\ fetches[id] < 3
  /\ fetches' = [fetches EXCEPT ![id] = @ + 1]
  /\ UNCHANGED <<workflows, executions, createReqs, execReqs, timers, nCreate,
                 nExec, toasts, rejections, nStart, lastStatus, e2e>>
  /\ UNCHANGED <<mountVars, viewVars>>

\* line 122: the timeout fires and calls pollExecutionStatus(executionId)
TimerFire(id) ==
  /\ timers[id] > 0
  /\ timers' = [timers EXCEPT ![id] = @ - 1]
  /\ fetches' = IssueFetch(fetches, id)
  /\ UNCHANGED <<toasts, rejections, nStart>>
  /\ UNCHANGED <<workflows, executions, createReqs, execReqs, nCreate, nExec,
                 lastStatus, e2e>>
  /\ firedUnmounted' = (firedUnmounted \/ ~mounted)
  /\ UNCHANGED <<mounted, ticks, refreshReqs, viewVars>>

\* pollExecutionStatus(executionId) called directly, for any id
StartPolling(id) ==
  /\ nStart < MaxStarts
  /\ nStart' = nStart + 1
  /\ fetches' = IssueFetch(fetches, id)
  /\ UNCHANGED <<workflows, executions, createReqs, execReqs, timers, nCreate,
                 nExec, toasts, rejections, lastStatus, e2e>>
  /\ UNCHANGED <<mountVars, viewVars>>

\* ---------------------------------------------------- mount, refresh interval
\* mutant: fetchExecutions fetches the list
RefreshTickFetches ==
  /\ mounted
  /\ ticks < MaxTicks
  /\ ticks' = ticks + 1
  /\ refreshReqs' = refreshReqs + 1
  /\ UNCHANGED <<wfVars, viewVars, mounted, firedUnmounted>>

\* line 38: the interval fires and calls fetchExecutions (lines 66-69), whose
\* body is empty
RefreshTick ==
  /\ mounted
  /\ ticks < MaxTicks
  /\ ticks' = ticks + 1
  /\ UNCHANGED <<wfVars, viewVars, mounted, refreshReqs, firedUnmounted>>

\* mutant: the cleanup also cancels the poll timeouts
UnmountCancelsPolls ==
  /\ mounted
  /\ mounted' = FALSE
  /\ timers' = [id \in PollIds |-> 0]
  /\ UNCHANGED <<workflows, executions, createReqs, execReqs, fetches, nCreate,
                 nExec, nStart, toasts, rejections, lastStatus, e2e, ticks,
                 refreshReqs, firedUnmounted, viewVars>>

\* line 39: the effect's cleanup, clearInterval(interval); state updates
\* enqueued afterwards are still written to the lists of this model
Unmount ==
  /\ mounted
  /\ mounted' = FALSE
  /\ UNCHANGED <<wfVars, viewVars, ticks, refreshReqs, firedUnmounted>>

\* ------------------------------------------------------------ specifications
KnownWorkflowIds == {workflows[i].workflow_id : i \in 1..Len(workflows)}

Next ==
  \/ \E t \in TemplateNames : CreateWorkflowCall(t)
  \/ \E r \in createReqs : CreateWorkflowOk(r)
  \/ \E r \in createReqs : CreateWorkflowFail(r)
  \/ \E w \in KnownWorkflowIds \cup {UnknownWorkflow} : ExecuteCall(w)
  \/ \E r \in execReqs : \E d \in ExecuteData(ExecutionId(r.n), r.workflow_id) :
       ExecuteOk(r, d)
  \/ \E r \in execReqs : ExecuteFail(r)
  \/ \E id \in PollIds : \E d \in StatusData(id) : PollOk(id, d)
  \/ \E id \in PollIds : PollFail(id)
  \/ \E id \in PollIds : TimerFire(id)

\* the component as wired: polls start in executeWorkflow only
Spec == Init /\ [][Next]_vars

\* executions and their polls, with no workflow created
NextExec ==
  \/ ExecuteCall(UnknownWorkflow)
  \/ \E r \in execReqs : \E d \in ExecuteData(ExecutionId(r.n), r.workflow_id) :
       ExecuteOk(r, d)
  \/ \E r \in execReqs : ExecuteFail(r)
  \/ \E id \in PollIds : \E d \in StatusData(id) : PollOk(id, d)
  \/ \E id \in PollIds : PollFail(id)
  \/ \E id \in PollIds : TimerFire(id)

SpecExec == Init /\ [][NextExec]_vars

\* a response is consistent: completed_at only with a terminal status,
\* error_message only with status failed
ResponseConsistent(data) ==
  /\ Get(data, "completed_at") # UNDEFINED => Get(data, "status") \in Terminal
  /\ Get(data, "error_message") # UNDEFINED => Get(data, "status") = "failed"

ConsistentStatusData(id) == { d \in StatusData(id) : ResponseConsistent(d) }

\* the component as wired, the backend answering with consistent responses
NextConsistent ==
  \/ ExecuteCall(UnknownWorkflow)
  \/ \E r \in execReqs : \E d \in ExecuteData(ExecutionId(r.n), r.workflow_id) :
       ResponseConsistent(d) /\ ExecuteOk(r, d)
  \/ \E r \in execReqs : ExecuteFail(r)
  \/ \E id \in PollIds : \E d \in ConsistentStatusData(id) : PollOk(id, d)
  \/ \E id \in PollIds : PollFail(id)
  \/ \E id \in PollIds : TimerFire(id)

SpecConsistent == Init /\ [][NextConsistent]_vars

NextPoller == NextExec \/ StartPolling(ForeignExecution)

\* the poller as a unit: pollExecutionStatus may also be called directly
SpecPoller == Init /\ [][NextPoller]_vars

\* executions and their polls, the refresh interval and the unmount
NextMount == NextExec \/ RefreshTick \/ Unmount

SpecMount == Init /\ [][NextMount]_vars

\* ------------------------------------------------------- the merge alone
\* the records executeWorkflow caches (lines 92-95), also after one merge
NewRecords ==
  { NewExecution(d, wfs, "w1") :
      d \in ExecuteData("e1", "w1"),
      wfs \in {<<>>, <<[workflow_id |-> "w1", name |-> "Deploy"]>>} }

CachedRecords ==
  NewRecords \cup { Spread(r, d) : r \in NewRecords, d \in StatusData("e1") }

InitMerge ==
  /\ InitWorkflowDashboard
  /\ cached \in CachedRecords
  /\ polled \in {"e1", "e2"}
  /\ response \in StatusData(polled)
  /\ merged = <<>>
  /\ InitFailures
  /\ InitDashboard
  /\ InitFeatures

\* lines 112-118 applied to the list holding the one record
MergeResponse ==
  /\ Len(merged) < MaxMerges
  /\ merged' = Append(merged,
                      MergeStatus(<<IF merged = <<>> THEN cached
                                    ELSE merged[Len(merged)]>>,
                                  polled, response)[1])
  /\ UNCHANGED <<wfVars, mountVars, featureVars, cached, polled, response, failVars, dashVars>>

SpecMerge == InitMerge /\ [][MergeResponse]_vars

\* ------------------------------------------- failed requests of all views
\* a function of a view awaits its request
SiteRequest(s) ==
  /\ s \notin inflight
  /\ Cardinality(inflight) < MaxInflight
  /\ inflight' = inflight \cup {s}
  /\ UNCHANGED <<lastFail, wfVars, mountVars, featureVars, mergeVars, dashVars>>

\* the request succeeds: the try block runs to its end
SiteResolve(s) ==
  /\ s \in inflight
  /\ inflight' = inflight \ {s}
  /\ UNCHANGED <<lastFail, wfVars, mountVars, featureVars, mergeVars, dashVars>>

\* mutant: every catch block also raises a notification
SiteRejectNotifies(s) ==
  /\ s \in inflight
  /\ inflight' = inflight \ {s}
  /\ lastFail' = [site |-> s, log |-> CatchBlocks[s].log, toast |-> TRUE,
                  error |-> CatchBlocks[s].error]
  /\ UNCHANGED <<wfVars, mountVars, featureVars, mergeVars, dashVars>>

\* the request fails: the catch block of the function runs
SiteReject(s) ==
  /\ s \in inflight
  /\ inflight' = inflight \ {s}
  /\ lastFail' = [site |-> s, log |-> CatchBlocks[s].log,
                  toast |-> CatchBlocks[s].toast, error |-> CatchBlocks[s].error]
  /\ UNCHANGED <<wfVars, mountVars, featureVars, mergeVars, dashVars>>

NextFailures ==
  \/ \E s \in Sites : SiteRequest(s)
  \/ \E s \in Sites : SiteResolve(s)
  \/ \E s \in Sites : SiteReject(s)

SpecFailures == Init /\ [][NextFailures]_vars

\* ---------------------------------------------------------------- Dashboard
\* lines 875-877: GET /health answered; fetchDashboardData() (lines 890-899)
\* sets loading, clears error and issues the three requests of Promise.all
HealthOk ==
  /\ health = "pending"
  /\ health' = "ok"
  /\ loading' = TRUE
  /\ error' = NULL
  /\ dataReqs' = [r \in DataEndpoints |-> "pending"]
  /\ UNCHANGED <<analytics, retries, dashToasts, wfVars, mountVars, featureVars, mergeVars,
                 failVars>>

\* lines 878-882: catch: console.error, setError, setLoading(false)
HealthFail ==
  /\ health = "pending"
  /\ health' = "failed"
  /\ error' = ConnectError
  /\ loading' = FALSE
  /\ UNCHANGED <<analytics, dataReqs, retries, dashToasts, wfVars, mountVars, featureVars,
                 mergeVars, failVars>>

\* mutant: Try Again runs the probe again
RetryProbes ==
  /\ ~loading
  /\ error # NULL
  /\ retries < MaxRetries
  /\ retries' = retries + 1
  /\ health' = "pending"
  /\ loading' = TRUE
  /\ error' = NULL
  /\ dataReqs' = [r \in DataEndpoints |-> "idle"]
  /\ UNCHANGED <<analytics, dashToasts, wfVars, mountVars, featureVars, mergeVars, failVars>>

\* lines 914-916 and 1043-1062: the error view (loading false, error set)
\* offers Try Again; retryFetch calls fetchDashboardData. Requests of an
\* earlier Promise.all still in flight are left out: their answers are ignored
RetryFetch ==
  /\ ~loading
  /\ error # NULL
  /\ retries < MaxRetries
  /\ retries' = retries + 1
  /\ loading' = TRUE
  /\ error' = NULL
  /\ dataReqs' = [r \in DataEndpoints |-> "pending"]
  /\ UNCHANGED <<health, analytics, dashToasts, wfVars, mountVars, featureVars, mergeVars,
                 failVars>>

\* one request of Promise.all succeeds; when it is the last one of a
\* Promise.all not yet settled, lines 901-904 and the finally block run
DataOk(r) ==
  /\ dataReqs[r] = "pending"
  /\ dataReqs' = [dataReqs EXCEPT ![r] = "ok"]
  /\ IF loading /\ \A q \in DataEndpoints \ {r} : dataReqs[q] = "ok"
       THEN /\ analytics' = "data"
            /\ loading' = FALSE
       ELSE UNCHANGED <<analytics, loading>>
  /\ UNCHANGED <<health, error, retries, dashToasts, wfVars, mountVars, featureVars, mergeVars,
                 failVars>>

\* one request of Promise.all fails; when the Promise.all is not yet settled
\* it rejects: lines 905-911, console.error, setError, toast.error, finally
DataFail(r) ==
  /\ dataReqs[r] = "pending"
  /\ dataReqs' = [dataReqs EXCEPT ![r] = "failed"]
  /\ IF loading
       THEN /\ error' = LoadError
            /\ dashToasts' = dashToasts + 1
            /\ loading' = FALSE
       ELSE UNCHANGED <<error, dashToasts, loading>>
  /\ UNCHANGED <<health, analytics, retries, wfVars, mountVars, featureVars, mergeVars,
                 failVars>>

NextDashboard ==
  \/ HealthOk
  \/ HealthFail
  \/ RetryFetch
  \/ \E r \in DataEndpoints : DataOk(r)
  \/ \E r \in DataEndpoints : DataFail(r)

SpecDashboard == Init /\ [][NextDashboard]_vars

\* ----------------------------------------------------------- AgentDashboard
AgentStatuses == {"online", "idle", "offline"}

Agent(id, status) == [id |-> id, status |-> status, last_active |-> "t0"]

\* GET /agents: the inventory
AgentLists ==
  { <<Agent("a1", "online"), Agent("a2", "idle")>>,
    <<Agent("a1", "offline"), Agent("a2", "online")>>,
    <<Agent("a2", "idle")>> }

\* new Date().toISOString()
Now == "t1"

\* line 189: isOnline ? 'offline' : 'online'
ToggleTarget(status) == IF status = "online" THEN "offline" ELSE "online"

\* lines 66-72: prevAgents.map(agent => agent.id === agentId ? {...} : agent)
UpdateAgent(prevAgents, agentId, newStatus) ==
  [i \in 1..Len(prevAgents) |->
     IF prevAgents[i].id = agentId
       THEN [prevAgents[i] EXCEPT !.status = newStatus, !.last_active = Now]
       ELSE prevAgents[i]]

\* mutant: fetchAgents lets its failure through to the caller
FetchAgentsRethrows(ok) == IF ok THEN "fulfilled" ELSE "rejected"

\* lines 33-46: how the promise of fetchAgents settles; the catch block
\* swallows the failure
FetchAgentsSettles(ok) == "fulfilled"

\* lines 48-58 after `await fetchAgents()`: the notifications of refreshAgents
RefreshNotice(outcome) ==
  IF outcome = "fulfilled" THEN <<"Agent status refreshed">>
  ELSE <<"Failed to refresh agents">>

\* lines 37-39, 44-45 (and 52, 56-57 when refreshAgents awaited it)
AgentsFetchOk(list) ==
  /\ agentsFetch # "none"
  /\ agentsFetch' = "none"
  /\ agents' = list
  /\ agentsLoading' = FALSE
  /\ IF agentsFetch = "refresh"
       THEN /\ agentsToast' = RefreshNotice(FetchAgentsSettles(TRUE))
            /\ refreshing' = FALSE
       ELSE UNCHANGED <<agentsToast, refreshing>>
  /\ UNCHANGED <<statusReqs, nUpdates, nRefreshes, otherThanAgents>>

\* lines 40-45 (and 52-57 when refreshAgents awaited it)
AgentsFetchFail ==
  /\ agentsFetch # "none"
  /\ agentsFetch' = "none"
  /\ agentsLoading' = FALSE
  /\ IF agentsFetch = "refresh"
       THEN /\ agentsToast' =
                 <<"Failed to load agent data. Please check your connection.">>
                   \o RefreshNotice(FetchAgentsSettles(FALSE))
            /\ refreshing' = FALSE
       ELSE /\ agentsToast' =
                 <<"Failed to load agent data. Please check your connection.">>
            /\ UNCHANGED refreshing
  /\ UNCHANGED <<agents, statusReqs, nUpdates, nRefreshes, otherThanAgents>>

\* lines 48-51, 35-37: the Refresh button (lines 233-236, disabled while
\* refreshing) is shown when loading is false (line 281)
RefreshAgents ==
  /\ ~agentsLoading
  /\ ~refreshing
  /\ nRefreshes < MaxRefreshes
  /\ nRefreshes' = nRefreshes + 1
  /\ refreshing' = TRUE
  /\ agentsLoading' = TRUE
  /\ agentsFetch' = "refresh"
  /\ UNCHANGED <<agents, statusReqs, nUpdates, agentsToast, otherThanAgents>>

\* mutant: the click changes the card before the request is answered
ToggleAgentOptimistic(i) ==
  /\ ~agentsLoading
  /\ i \in 1..Len(agents)
  /\ nUpdates < MaxUpdates
  /\ nUpdates' = nUpdates + 1
  /\ statusReqs' = statusReqs \cup
       {[agentId |-> agents[i].id, status |-> ToggleTarget(agents[i].status),
         n |-> nUpdates + 1]}
  /\ agents' = UpdateAgent(agents, agents[i].id, ToggleTarget(agents[i].status))
  /\ UNCHANGED <<agentsLoading, refreshing, agentsFetch, nRefreshes,
                 agentsToast, otherThanAgents>>

\* line 189 and lines 60-64: the card's button calls updateAgentStatus
ToggleAgent(i) ==
  /\ ~agentsLoading
  /\ i \in 1..Len(agents)
  /\ nUpdates < MaxUpdates
  /\ nUpdates' = nUpdates + 1
  /\ statusReqs' = statusReqs \cup
       {[agentId |-> agents[i].id, status |-> ToggleTarget(agents[i].status),
         n |-> nUpdates + 1]}
  /\ UNCHANGED <<agents, agentsLoading, refreshing, agentsFetch, nRefreshes,
                 agentsToast, otherThanAgents>>

\* lines 66-74: setAgents(prevAgents => ...), toast.success
UpdateStatusOk(req) ==
  /\ req \in statusReqs
  /\ statusReqs' = statusReqs \ {req}
  /\ agents' = UpdateAgent(agents, req.agentId, req.status)
  /\ agentsToast' = <<IF req.status = "online" THEN "Agent started successfully"
                       ELSE "Agent stopped successfully">>
  /\ UNCHANGED <<agentsLoading, refreshing, agentsFetch, nUpdates, nRefreshes,
                 otherThanAgents>>

\* lines 75-78: catch: console.error, toast.error
UpdateStatusFail(req) ==
  /\ req \in statusReqs
  /\ statusReqs' = statusReqs \ {req}
  /\ agentsToast' = <<"Failed to update agent status">>
  /\ UNCHANGED <<agents, agentsLoading, refreshing, agentsFetch, nUpdates,
                 nRefreshes, otherThanAgents>>

NextAgents ==
  \/ \E list \in AgentLists : AgentsFetchOk(list)
  \/ AgentsFetchFail
  \/ RefreshAgents
  \/ \E i \in 1..Len(agents) : ToggleAgent(i)
  \/ \E req \in statusReqs : UpdateStatusOk(req)
  \/ \E req \in statusReqs : UpdateStatusFail(req)

SpecAgents == Init /\ [][NextAgents]_vars

\* ------------------------------------------ ProjectGallery, BlueprintCreator
\* a project or blueprint as the backend returns it; names and descriptions
\* are sequences of characters
Item(id) ==
  [id |-> id, name |-> <<"A", "b">>, description |-> <<"b">>, status |-> "completed"]

\* GET /projects, GET /blueprints
StoredItems == <<Item("i1"), Item("i2")>>

\* the id the backend gives the item of the n-th call
NewItemId(n) == <<"n1", "n2", "n3", "n4", "n5">>[n]

TotalCalls == Len(calls["projects"]) + Len(calls["blueprints"])

\* xs.filter(p => p.id !== id)
WithoutId(xs, id) == SelectSeq(xs, LAMBDA p : p.id # id)

Notice(v, projectsMsg, blueprintsMsg) ==
  IF v = "projects" THEN projectsMsg ELSE blueprintsMsg

\* fetchProjects lines 44-48, 53; fetchBlueprints lines 40-41, 46
ListFetchOk(v) ==
  /\ listLoading[v]
  /\ listLoading' = [listLoading EXCEPT ![v] = FALSE]
  /\ lists' = [lists EXCEPT ![v] = StoredItems]
  /\ UNCHANGED <<crudReqs, calls, crudToast, created, deleted, crudFailed, otherThanLists>>

\* fetchProjects lines 49-53; fetchBlueprints lines 42-46
ListFetchFail(v) ==
  /\ listLoading[v]
  /\ listLoading' = [listLoading EXCEPT ![v] = FALSE]
  /\ crudToast' = [crudToast EXCEPT ![v] =
       Notice(v, "Failed to load projects. Please check your connection.",
              "Failed to load blueprints")]
  /\ UNCHANGED <<lists, crudReqs, calls, created, deleted, crudFailed, otherThanLists>>

\* createProject line 59, createBlueprint line 54: the POST is sent; the
\* handler has closed over the list of the render it was created in
CreateCall(v) ==
  /\ ~listLoading[v]
  /\ TotalCalls < MaxCalls
  /\ calls' = [calls EXCEPT ![v] = Append(@, "create")]
  /\ crudReqs' = [crudReqs EXCEPT ![v] =
       @ \cup {[kind |-> "create", id |-> NewItemId(Len(calls[v]) + 1),
                seen |-> lists[v]]}]
  /\ UNCHANGED <<lists, listLoading, crudToast, created, deleted, crudFailed,
                 otherThanLists>>

\* createProject lines 60-62: setProjects([response.data, ...projects]);
\* createBlueprint lines 55-58: setBlueprints([...blueprints, response.data])
CreateOk(v, req) ==
  /\ req \in crudReqs[v]
  /\ req.kind = "create"
  /\ crudReqs' = [crudReqs EXCEPT ![v] = @ \ {req}]
  /\ lists' = [lists EXCEPT ![v] =
       IF v = "projects" THEN <<Item(req.id)>> \o req.seen
       ELSE req.seen \o <<Item(req.id)>>]
  /\ created' = [created EXCEPT ![v] = @ \cup {req.id}]
  /\ crudToast' = [crudToast EXCEPT ![v] =
       Notice(v, "Project created successfully!", "Blueprint created successfully!")]
  /\ UNCHANGED <<listLoading, calls, deleted, crudFailed, otherThanLists>>

\* createProject lines 63-66, createBlueprint lines 59-62
CreateFail(v, req) ==
  /\ req \in crudReqs[v]
  /\ req.kind = "create"
  /\ crudReqs' = [crudReqs EXCEPT ![v] = @ \ {req}]
  /\ crudToast' = [crudToast EXCEPT ![v] =
       Notice(v, "Failed to create project", "Failed to create blueprint")]
  /\ UNCHANGED <<lists, listLoading, calls, created, deleted, otherThanLists>>
  /\ crudFailed' = [crudFailed EXCEPT ![v] = TRUE]

\* mutant: the item is removed at the click, before the user is asked
DeleteCallOptimistic(v, i, confirmed) ==
  /\ ~listLoading[v]
  /\ i \in 1..Len(lists[v])
  /\ TotalCalls < MaxCalls
  /\ calls' = [calls EXCEPT ![v] =
       Append(@, IF confirmed THEN "delete:ok" ELSE "delete:cancel")]
  /\ lists' = [lists EXCEPT ![v] = WithoutId(lists[v], lists[v][i].id)]
  /\ crudReqs' = [crudReqs EXCEPT ![v] =
       @ \cup {[kind |-> "delete", id |-> lists[v][i].id, seen |-> lists[v]]}]
  /\ UNCHANGED <<listLoading, crudToast, created, deleted, crudFailed, otherThanLists>>

\* deleteProject lines 70-75, deleteBlueprint lines 66-71: the card's button;
\* window.confirm, return when cancelled, otherwise the DELETE is sent
DeleteCall(v, i, confirmed) ==
  /\ ~listLoading[v]
  /\ i \in 1..Len(lists[v])
  /\ TotalCalls < MaxCalls
  /\ calls' = [calls EXCEPT ![v] =
       Append(@, IF confirmed THEN "delete:ok" ELSE "delete:cancel")]
  /\ crudReqs' = [crudReqs EXCEPT ![v] =
       IF confirmed
         THEN @ \cup {[kind |-> "delete", id |-> lists[v][i].id, seen |-> lists[v]]}
         ELSE @]
  /\ UNCHANGED <<lists, listLoading, crudToast, created, deleted, crudFailed,
                 otherThanLists>>

\* deleteProject lines 76-77: setProjects(projects.filter(p => p.id !== id));
\* deleteBlueprint lines 72-73
DeleteOk(v, req) ==
  /\ req \in crudReqs[v]
  /\ req.kind = "delete"
  /\ crudReqs' = [crudReqs EXCEPT ![v] = @ \ {req}]
  /\ lists' = [lists EXCEPT ![v] = WithoutId(req.seen, req.id)]
  /\ deleted' = [deleted EXCEPT ![v] = @ \cup {req.id}]
  /\ crudToast' = [crudToast EXCEPT ![v] =
       Notice(v, "Project deleted successfully", "Blueprint deleted successfully")]
  /\ UNCHANGED <<listLoading, calls, created, crudFailed, otherThanLists>>

\* deleteProject lines 78-81, deleteBlueprint lines 74-77
DeleteFail(v, req) ==
  /\ req \in crudReqs[v]
  /\ req.kind = "delete"
  /\ crudReqs' = [crudReqs EXCEPT ![v] = @ \ {req}]
  /\ crudToast' = [crudToast EXCEPT ![v] =
       Notice(v, "Failed to delete project", "Failed to delete blueprint")]
  /\ UNCHANGED <<lists, listLoading, calls, created, deleted, otherThanLists>>
  /\ crudFailed' = [crudFailed EXCEPT ![v] = TRUE]

NextLists ==
  \E v \in Views :
    \/ ListFetchOk(v)
    \/ ListFetchFail(v)
    \/ CreateCall(v)
    \/ \E req \in crudReqs[v] : CreateOk(v, req)
    \/ \E req \in crudReqs[v] : CreateFail(v, req)
    \/ \E i \in 1..Len(lists[v]) : \E confirmed \in BOOLEAN : DeleteCall(v, i, confirmed)
    \/ \E req \in crudReqs[v] : DeleteOk(v, req)
    \/ \E req \in crudReqs[v] : DeleteFail(v, req)

SpecLists == Init /\ [][NextLists]_vars

\* ------------------------------------------- ProjectGallery: filteredProjects
\* String.prototype.toLowerCase on one character of the alphabet used
LowerChar(c) == IF c = "A" THEN "a" ELSE IF c = "B" THEN "b" ELSE c

\* mutant: the strings are compared as they are
ToLowerCaseKeeps(str) == str

\* String.prototype.toLowerCase
ToLowerCase(str) == [i \in 1..Len(str) |-> LowerChar(str[i])]

StartsWith(str, sub) ==
  /\ Len(sub) <= Len(str)
  /\ SubSeq(str, 1, Len(sub)) = sub

\* String.prototype.includes
RECURSIVE Includes(_, _)
Includes(str, sub) ==
  IF StartsWith(str, sub) THEN TRUE
  ELSE IF str = <<>> THEN FALSE
  ELSE Includes(Tail(str), sub)

\* lines 85-86: name matches, or description?. matches (undefined is falsy)
MatchesSearch(project, term) ==
  \/ Includes(ToLowerCase(project.name), ToLowerCase(term))
  \/ /\ "description" \in DOMAIN project
     /\ Includes(ToLowerCase(project.description), ToLowerCase(term))

\* line 87
MatchesFilter(project, filter) == filter = "all" \/ project.status = filter

\* lines 84-89: projects.filter(project => matchesSearch && matchesFilter)
FilterProjects(projects, term, filter) ==
  SelectSeq(projects,
            LAMBDA project : MatchesSearch(project, term) /\ MatchesFilter(project, filter))

filteredProjects == FilterProjects(lists["projects"], searchTerm, filterStatus)

\* projects the backend may hold, one without a description
SomeProjects ==
  { [id |-> "p1", name |-> <<"A", "b">>, status |-> "completed"],
    [id |-> "p2", name |-> <<"b", "a">>, description |-> <<"A", "B">>,
     status |-> "planning"],
    [id |-> "p3", name |-> <<"B">>, description |-> <<"a">>,
     status |-> "in-progress"] }

ProjectLists ==
  {<<>>} \cup { <<p>> : p \in SomeProjects }
         \cup { pq \in SomeProjects \X SomeProjects : pq[1] # pq[2] }

\* what the user may type or select (lines 383, 391-396)
SearchTerms == { <<>>, <<"a">>, <<"B">>, <<"a", "B">>, <<"b", "A">>, <<"c">> }
FilterOptions == {"all", "completed", "in-progress", "planning"}

\* the gallery with its projects loaded
InitGallery ==
  /\ InitWorkflowDashboard
  /\ InitMergeIdle
  /\ InitFailures
  /\ InitDashboard
  /\ InitAgents
  /\ InitFilter
  /\ InitGateway
  /\ InitAnalytics
  /\ InitAIHub
  /\ InitApp
  /\ lists \in { [v \in Views |-> IF v = "projects" THEN ps ELSE <<>>] :
                   ps \in ProjectLists }
  /\ listLoading = [v \in Views |-> v # "projects"]
  /\ crudReqs = [v \in Views |-> {}]
  /\ calls = [v \in Views |-> <<>>]
  /\ crudToast = [v \in Views |-> "none"]
  /\ created = [v \in Views |-> {}]
  /\ deleted = [v \in Views |-> {}]
  /\ crudFailed = [v \in Views |-> FALSE]

\* line 383: onChange of the search box
SetSearchTerm(term) ==
  /\ ~listLoading["projects"]
  /\ searchTerm' = term
  /\ UNCHANGED <<filterStatus, otherThanFilter>>

\* line 391: onChange of the status select
SetFilterStatus(filter) ==
  /\ ~listLoading["projects"]
  /\ filterStatus' = filter
  /\ UNCHANGED <<searchTerm, otherThanFilter>>

NextGallery ==
  \/ \E term \in SearchTerms : SetSearchTerm(term)
  \/ \E filter \in FilterOptions : SetFilterStatus(filter)

SpecGallery == InitGallery /\ [][NextGallery]_vars

\* ------------------------------------------------- APIGateway: addIntegration
\* the characters the regular expression class \s matches, of those used
Whitespace == {" ", "\t"}

RECURSIVE SkipWhitespace(_)
SkipWhitespace(str) ==
  IF str # <<>> /\ Head(str) \in Whitespace THEN SkipWhitespace(Tail(str)) ELSE str

\* line 101: .replace(/\s+/g, '_'), scanning from the left, each match the
\* longest run of whitespace
RECURSIVE ReplaceWhitespaceRuns(_)
ReplaceWhitespaceRuns(str) ==
  IF str = <<>> THEN <<>>
  ELSE IF Head(str) \in Whitespace
    THEN <<"_">> \o ReplaceWhitespaceRuns(SkipWhitespace(str))
    ELSE <<Head(str)>> \o ReplaceWhitespaceRuns(Tail(str))

\* mutant: the id with every whitespace character replaced on its own
IntegrationIdEachChar(name) ==
  [i \in 1..Len(name) |->
     IF name[i] \in Whitespace THEN "_" ELSE LowerChar(name[i])]

\* line 101: newIntegration.name.toLowerCase().replace(/\s+/g, '_')
IntegrationId(name) == ReplaceWhitespaceRuns(ToLowerCase(name))

\* lines 100-118: integrationData
IntegrationData(form) ==
  [id |-> IntegrationId(form.name),
   name |-> form.name,
   type |-> form.type,
   base_url |-> form.base_url,
   auth_config |->
     [auth_type |-> form.auth_type,
      credentials |-> IF form.auth_type = "api_key"
                        THEN [api_key |-> form.api_key]
                        ELSE [token |-> form.api_key],
      headers |-> [ContentType |-> "application/json"]],
   rate_limits |-> <<[type |-> "per_minute", limit |-> 100, window |-> 60]>>,
   timeout |-> 30]

\* what the user may type or select in the modal
IntegrationNames == { <<>>, <<"A", " ", "\t", "b">>, <<" ", "B">> }
AuthTypes == {"bearer_token", "api_key", "basic_auth", "none"}

\* lines 472, 551: Add Integration opens the modal
OpenAddModal ==
  /\ ~showAddModal
  /\ showAddModal' = TRUE
  /\ UNCHANGED <<newIntegration, addReqs, integFetches, nAdds, gatewayToast,
                 otherThanGateway>>

\* lines 321, 335, 419: the backdrop, the close button and Cancel
CloseAddModal ==
  /\ showAddModal
  /\ showAddModal' = FALSE
  /\ UNCHANGED <<newIntegration, addReqs, integFetches, nAdds, gatewayToast,
                 otherThanGateway>>

\* lines 350, 379, 391, 409: onChange of name, base_url, auth_type, api_key
\* (the type select, line 362, is left at rest_api)
EditForm(field, value) ==
  /\ showAddModal
  /\ newIntegration[field] # value
  /\ newIntegration' = [newIntegration EXCEPT ![field] = value]
  /\ UNCHANGED <<showAddModal, addReqs, integFetches, nAdds, gatewayToast,
                 otherThanGateway>>

\* lines 98-120: the button of lines 424-427, disabled without a name or a
\* base_url; the body is built and posted
AddIntegrationCall ==
  /\ showAddModal
  /\ newIntegration.name # <<>>
  /\ newIntegration.base_url # ""
  /\ nAdds < MaxAdds
  /\ nAdds' = nAdds + 1
  /\ addReqs' = addReqs \cup {IntegrationData(newIntegration)}
  /\ UNCHANGED <<showAddModal, newIntegration, integFetches, gatewayToast,
                 otherThanGateway>>

\* lines 122-132: toast.success, close, reset, fetchIntegrations()
AddIntegrationOk(body) ==
  /\ body \in addReqs
  /\ addReqs' = addReqs \ {body}
  /\ gatewayToast' = "Integration added successfully!"
  /\ showAddModal' = FALSE
  /\ newIntegration' = EmptyForm
  /\ integFetches' = integFetches + 1
  /\ UNCHANGED <<nAdds, otherThanGateway>>

\* lines 133-136: catch: console.error, toast.error
AddIntegrationFail(body) ==
  /\ body \in addReqs
  /\ addReqs' = addReqs \ {body}
  /\ gatewayToast' = "Failed to add integration"
  /\ UNCHANGED <<showAddModal, newIntegration, integFetches, nAdds,
                 otherThanGateway>>

\* lines 70-78: GET /gateway/integrations answered (the list itself is left
\* out); a failure is logged and notified
IntegrationsFetched(ok) ==
  /\ integFetches > 0
  /\ integFetches' = integFetches - 1
  /\ gatewayToast' = IF ok THEN gatewayToast ELSE "Failed to load integrations"
  /\ UNCHANGED <<showAddModal, newIntegration, addReqs, nAdds, otherThanGateway>>

NextGateway ==
  \/ OpenAddModal
  \/ CloseAddModal
  \/ \E name \in IntegrationNames : EditForm("name", name)
  \/ \E url \in {"", "u"} : EditForm("base_url", url)
  \/ \E auth \in AuthTypes : EditForm("auth_type", auth)
  \/ \E key \in {"", "k"} : EditForm("api_key", key)
  \/ AddIntegrationCall
  \/ \E body \in addReqs : AddIntegrationOk(body)
  \/ \E body \in addReqs : AddIntegrationFail(body)
  \/ \E ok \in BOOLEAN : IntegrationsFetched(ok)

SpecGateway == Init /\ [][NextGateway]_vars

\* ------------------------------------ EnterpriseAnalytics: dashboard selection
\* lines 551-554 up to the await: setRefreshing(true) and the GET
FetchDashboardData(id) ==
  /\ analyticsRefreshing' = TRUE
  /\ dashboardReqs' = [dashboardReqs EXCEPT ![id] = @ + 1]

\* lines 533-542 and the effect of lines 527-531: the list arrives; the first
\* dashboard is selected, which makes the effect fetch its data
DashboardsOk ==
  /\ dashboardsFetch
  /\ dashboardsFetch' = FALSE
  /\ dashboards' = DashboardList
  /\ selectedDashboard' = DashboardList[1]
  /\ FetchDashboardData(DashboardList[1])
  /\ UNCHANGED <<dashboardData, nSelects, dashboardFailed, analyticsToast,
                 otherThanAnalytics>>

\* lines 543-545: the list request is rejected
DashboardsFail ==
  /\ dashboardsFetch
  /\ dashboardsFetch' = FALSE
  /\ analyticsToast' = "Failed to load analytics dashboards"
  /\ UNCHANGED <<dashboards, selectedDashboard, dashboardData, dashboardReqs,
                 analyticsRefreshing, nSelects, dashboardFailed, otherThanAnalytics>>

\* line 899 and the effect of lines 527-531, which runs when the selection
\* changed
SelectDashboard(id) ==
  /\ id \in { dashboards[i] : i \in 1..Len(dashboards) }
  /\ id # selectedDashboard
  /\ nSelects < MaxSelects
  /\ nSelects' = nSelects + 1
  /\ selectedDashboard' = id
  /\ FetchDashboardData(id)
  /\ UNCHANGED <<dashboards, dashboardData, dashboardsFetch, dashboardFailed,
                 analyticsToast, otherThanAnalytics>>

\* lines 573-578 behind the button of lines 879-882, disabled while refreshing
\* (fetchRealTimeMetrics is left out)
RefreshDashboard ==
  /\ ~analyticsRefreshing
  /\ selectedDashboard # NULL
  /\ nSelects < MaxSelects
  /\ nSelects' = nSelects + 1
  /\ FetchDashboardData(selectedDashboard)
  /\ UNCHANGED <<dashboards, selectedDashboard, dashboardData, dashboardsFetch,
                 dashboardFailed, analyticsToast, otherThanAnalytics>>

\* lines 555, 559-561: a request for dashboard id answered
DashboardDataOk(id) ==
  /\ dashboardReqs[id] > 0
  /\ dashboardReqs' = [dashboardReqs EXCEPT ![id] = @ - 1]
  /\ dashboardData' = DashboardResponse(id)
  /\ analyticsRefreshing' = FALSE
  /\ UNCHANGED <<dashboards, selectedDashboard, dashboardsFetch, nSelects,
                 dashboardFailed, analyticsToast, otherThanAnalytics>>

\* lines 556-561: a request for dashboard id rejected
DashboardDataFail(id) ==
  /\ dashboardReqs[id] > 0
  /\ dashboardReqs' = [dashboardReqs EXCEPT ![id] = @ - 1]
  /\ analyticsToast' = "Failed to load dashboard data"
  /\ dashboardFailed' = TRUE
  /\ analyticsRefreshing' = FALSE
  /\ UNCHANGED <<dashboards, selectedDashboard, dashboardData, dashboardsFetch,
                 nSelects, otherThanAnalytics>>

NextAnalytics ==
  \/ DashboardsOk
  \/ DashboardsFail
  \/ \E id \in DashboardIds : SelectDashboard(id)
  \/ RefreshDashboard
  \/ \E id \in DashboardIds : DashboardDataOk(id)
  \/ \E id \in DashboardIds : DashboardDataFail(id)

SpecAnalytics == Init /\ [][NextAnalytics]_vars

\* ------------------------------------------------ AIHub: handleGenerateCode
\* String.prototype.trim: whitespace removed from both ends
RECURSIVE TrimEnd(_)
TrimEnd(str) ==
  IF str # <<>> /\ str[Len(str)] \in Whitespace
    THEN TrimEnd(SubSeq(str, 1, Len(str) - 1))
    ELSE str

Trim(str) == TrimEnd(SkipWhitespace(str))

\* what the user may type as the blueprint description
Blueprints == { <<>>, <<" ">>, <<" ", "x">>, <<"y", "\t">> }

\* the answers the backend may give to a generation request
GeneratedCodes == {"code1", "code2"}

\* the textarea's onChange
SetBlueprint(text) ==
  /\ blueprint # text
  /\ blueprint' = text
  /\ UNCHANGED <<generating, generatedCode, showResults, generateReqs,
                 nGenerates, aiToast, otherThanAIHub>>

\* lines 454-478 up to the await. The button of lines 690-691 is disabled
\* while generating; it is disabled for a blank blueprint as well, so the
\* first branch is the handler's own check.
HandleGenerateCode ==
  /\ ~generating
  /\ nGenerates < MaxGenerates
  /\ nGenerates' = nGenerates + 1
  /\ IF Trim(blueprint) = <<>>
       THEN /\ aiToast' = "Please provide a blueprint description"
            /\ UNCHANGED <<generating, showResults, generateReqs>>
       ELSE /\ generating' = TRUE
            /\ showResults' = FALSE
            /\ generateReqs' = generateReqs \cup {blueprint}
            /\ UNCHANGED aiToast
  /\ UNCHANGED <<blueprint, generatedCode, otherThanAIHub>>

\* lines 480-482 and 486-488
GenerateOk(description, code) ==
  /\ description \in generateReqs
  /\ generateReqs' = generateReqs \ {description}
  /\ generatedCode' = code
  /\ showResults' = TRUE
  /\ aiToast' = "Code generated successfully!"
  /\ generating' = FALSE
  /\ UNCHANGED <<blueprint, nGenerates, otherThanAIHub>>

\* mutant: a failed generation discards the earlier result
GenerateFailClears(description) ==
  /\ description \in generateReqs
  /\ generateReqs' = generateReqs \ {description}
  /\ generatedCode' = NULL
  /\ aiToast' = "Code generation failed. Please try again."
  /\ generating' = FALSE
  /\ UNCHANGED <<blueprint, showResults, nGenerates, otherThanAIHub>>

\* lines 483-488: catch and finally
GenerateFail(description) ==
  /\ description \in generateReqs
  /\ generateReqs' = generateReqs \ {description}
  /\ aiToast' = "Code generation failed. Please try again."
  /\ generating' = FALSE
  /\ UNCHANGED <<blueprint, generatedCode, showResults, nGenerates, otherThanAIHub>>

NextAIHub ==
  \/ \E text \in Blueprints : SetBlueprint(text)
  \/ HandleGenerateCode
  \/ \E description \in generateReqs, code \in GeneratedCodes :
       GenerateOk(description, code)
  \/ \E description \in generateReqs : GenerateFail(description)

SpecAIHub == Init /\ [][NextAIHub]_vars

\* --------------------------------------------------------- App: navigation
\* a state update of App followed by its render
ShowView(view) ==
  /\ currentView' = view
  /\ renderedViews' = renderedViews \cup {RenderApp(view)}

\* lines 62, 81: Landing's onGetStarted
GetStarted ==
  /\ currentView = "landing"
  /\ ShowView("dashboard")
  /\ lastClick' = "getStarted"
  /\ UNCHANGED <<sidebarOpen, darkMode, otherThanApp>>

\* lines 121-128: a navigation item of the sidebar, which the landing page
\* does not show
Navigate(i) ==
  /\ currentView # "landing"
  /\ ShowView(Navigation[i])
  /\ sidebarOpen' = FALSE
  /\ lastClick' = Navigation[i]
  /\ UNCHANGED <<darkMode, otherThanApp>>

\* line 158: the menu button of the mobile header
OpenSidebar ==
  /\ currentView # "landing"
  /\ sidebarOpen' = TRUE
  /\ lastClick' = "menu"
  /\ UNCHANGED <<currentView, darkMode, renderedViews, otherThanApp>>

\* lines 96, 113: the overlay and the close button
CloseSidebar ==
  /\ currentView # "landing"
  /\ sidebarOpen' = FALSE
  /\ lastClick' = "close"
  /\ UNCHANGED <<currentView, darkMode, renderedViews, otherThanApp>>

\* line 144: the theme toggle
ToggleDarkMode ==
  /\ currentView # "landing"
  /\ darkMode' = ~darkMode
  /\ lastClick' = "theme"
  /\ UNCHANGED <<currentView, sidebarOpen, renderedViews, otherThanApp>>

NextApp ==
  \/ GetStarted
  \/ \E i \in 1..Len(Navigation) : Navigate(i)
  \/ OpenSidebar
  \/ CloseSidebar
  \/ ToggleDarkMode

SpecApp == Init /\ [][NextApp]_vars

\* the event loop runs every armed timeout; every status fetch settles; and
\* the backend does not report pending or running for ever
Fairness ==
  \A id \in ExecIds :
    /\ WF_vars(TimerFire(id))
    /\ WF_vars(PollFail(id) \/ \E d \in StatusData(id) : PollOk(id, d))
    /\ SF_vars(\E d \in StatusData(id) :
                 Get(d, "status") \in Terminal /\ PollOk(id, d))

LiveSpec == Init /\ [][NextExec]_vars /\ Fairness

\* ------------------------------------------------------------------ claims
\* the cached record of an execution id (undefined fields when none)
HasRecord(list, id) == \E i \in 1..Len(list) : Get(list[i], "execution_id") = id
RecordsOf(list, id) == SelectSeq(list, LAMBDA r : Get(r, "execution_id") = id)
Field(list, id, key) ==
  IF HasRecord(list, id) THEN Get(Head(RecordsOf(list, id)), key) ELSE UNDEFINED

\* the step in which a status fetch for id resolved / rejected
PollOkStep(id) == fetches'[id] = fetches[id] - 1 /\ lastStatus'[id] # "rejected"
PollFailStep(id) == fetches'[id] = fetches[id] - 1 /\ lastStatus'[id] = "rejected"
Idle(id) == fetches[id] = 0 /\ timers[id] = 0

\* C1: while the latest settled status fetch of an execution carried
\* completed, failed or cancelled, no status fetch for that id is in flight
\* and no timer for it is armed: the chain armed nothing and asks nothing more
C1_TerminalStopsPolling ==
  \A id \in ExecIds : lastStatus[id] \in Terminal => Idle(id)

C1_Witness ==
  \E id \in ExecIds : lastStatus[id] \in Terminal /\ HasRecord(executions, id)

\* C2: the step in which a status fetch resolves with pending or running arms
\* exactly one timer for that id, touches no other timer and issues no fetch
C2_OneTimerArmed ==
  [][\A id \in ExecIds :
       (PollOkStep(id) /\ lastStatus'[id] \in NonTerminal) =>
         /\ timers' = [timers EXCEPT ![id] = @ + 1]
         /\ fetches' = [fetches EXCEPT ![id] = @ - 1]
         /\ fetches'[id] + timers'[id] = 1]_vars

C2_Witness ==
  \E id \in ExecIds : lastStatus[id] \in NonTerminal /\ timers[id] = 1

\* C3: a status fetch that settles for an execution_id with no record in the
\* executions list leaves the list as it was: same records, same order
C3_MergeIsUpdateOnly ==
  [][\A id \in PollIds :
       (fetches'[id] < fetches[id] /\ ~HasRecord(executions, id)) =>
         executions' = executions]_vars

\* a response with pending or running was merged for the id no record has
C3_Witness ==
  /\ timers[ForeignExecution] > 0
  /\ executions # <<>>
  /\ ~HasRecord(executions, ForeignExecution)

\* C4: the step in which a status fetch rejects arms no timer, issues no
\* fetch, raises no toast, rejects nothing to the caller and leaves the
\* executions list unchanged; and after it the chain for that id stays idle
C4_RejectedFetchStopsSilently ==
  /\ [][\A id \in ExecIds :
          PollFailStep(id) =>
            /\ timers' = timers
            /\ fetches' = [fetches EXCEPT ![id] = @ - 1]
            /\ toasts' = toasts
            /\ rejections' = rejections
            /\ executions' = executions]_vars
  /\ [](\A id \in ExecIds : lastStatus[id] = "rejected" => Idle(id))

\* a fetch rejected after a running response had been merged
C4_Witness ==
  \E id \in ExecIds :
    /\ lastStatus[id] = "rejected"
    /\ Field(executions, id, "status") = "running"
    /\ Field(executions, id, "completed_at") = "t1"

\* C5: the step that merges a status response for execution A leaves the
\* record of every other execution B as it was, field for field
C5_MergeLeavesOthers ==
  [][\A a \in ExecIds : \A b \in ExecIds :
       (PollOkStep(a) /\ b # a) =>
         RecordsOf(executions', b) = RecordsOf(executions, b)]_vars

\* both executions cached and polled, with different merged statuses
C5_Witness ==
  /\ lastStatus["e1"] = "completed"
  /\ lastStatus["e2"] = "running"
  /\ Field(executions, "e1", "status") = "completed"
  /\ Field(executions, "e2", "status") = "running"

\* C6: at most one status fetch is in flight per execution id
C6_OneFetchPerExecution == \A id \in PollIds : fetches[id] <= 1

\* two executions polled at once, one fetch in flight for each
C6_Witness == fetches["e1"] = 1 /\ fetches["e2"] = 1

\* C7: once the cached record of an execution has a terminal status, no step
\* issues a status fetch for it and no step changes any of its fields
C7_TerminalRecordFrozen ==
  [][\A id \in ExecIds :
       Field(executions, id, "status") \in Terminal =>
         /\ fetches'[id] <= fetches[id]
         /\ RecordsOf(executions', id) = RecordsOf(executions, id)]_vars

\* C8 as stated: after the status responses pending, running, completed for
\* an execution of a workflow created from a template, its record shows
\* completed with a non-null completed_at and its chain is idle
C8_EndToEndAsStated ==
  \A id \in ExecIds :
    (e2e[id] \in {"3", "3n"} /\ Field(executions, id, "workflow_name") \in TemplateNames)
      => /\ Field(executions, id, "status") = "completed"
         /\ Field(executions, id, "completed_at") \notin {UNDEFINED, NULL}
         /\ Idle(id)

\* C8 amended: the same, when the completed response carries a non-null
\* completed_at (the client sets none itself)
C8_EndToEnd ==
  \A id \in ExecIds :
    (e2e[id] = "3" /\ Field(executions, id, "workflow_name") \in TemplateNames)
      => /\ Field(executions, id, "status") = "completed"
         /\ Field(executions, id, "completed_at") \notin {UNDEFINED, NULL}
         /\ Idle(id)

\* created from the template, executed, answered pending, running, completed
C8_Witness ==
  /\ Len(workflows) = 1
  /\ e2e["e1"] = "3"
  /\ Field(executions, "e1", "workflow_name") = "Deploy"
  /\ Field(executions, "e1", "workflow_id") = "w1"

\* C9: when every status fetch settles and the backend comes to report a
\* terminal status, a poll chain with a fetch in flight or a timer armed
\* leads to that chain being idle
C9_PollingTerminates ==
  \A id \in ExecIds : (~Idle(id)) ~> Idle(id)

\* a chain that re-armed at least once and then stopped on a terminal status
C9_Witness ==
  \E id \in ExecIds :
    /\ e2e[id] \in {"3", "3n"}
    /\ Idle(id)
    /\ lastStatus[id] = "completed"

\* C10 as stated: the step in which a status fetch resolves arms a timer if
\* and only if the status of the cached record for that execution_id after
\* the merge is pending or running
C10_RearmIffMergedStatus ==
  [][\A id \in PollIds :
       /\ (id \in ExecIds /\ PollOkStep(id)) =>
            (timers'[id] = timers[id] + 1
               <=> Field(executions', id, "status") \in NonTerminal)
       /\ timers'[id] > timers[id] =>
            Field(executions', id, "status") \in NonTerminal]_vars

\* C10 amended: the step in which a status fetch resolves arms one timer if
\* the status the response carries is pending or running, and none otherwise
C10_RearmIffResponseStatus ==
  [][\A id \in ExecIds :
       PollOkStep(id) =>
         /\ lastStatus'[id] \in NonTerminal => timers'[id] = timers[id] + 1
         /\ lastStatus'[id] \notin NonTerminal => timers'[id] = timers[id]]_vars

\* a response without a status settled: the record still says running and
\* polling has stopped
C10_Witness ==
  \E id \in ExecIds :
    /\ lastStatus[id] = UNDEFINED
    /\ Field(executions, id, "status") = "running"
    /\ Idle(id)

C12_NoTransitionValidation ==
  [][\A id \in ExecIds :
       (PollOkStep(id) /\ lastStatus'[id] \in Statuses) =>
         Field(executions', id, "status") = lastStatus'[id]]_vars

\* a backward transition: the record was failed when executeWorkflow cached
\* it (that is where its error_message comes from) and the one poll response
\* so far, pending, made it pending
C12_Witness ==
  \E id \in ExecIds :
    /\ e2e[id] = "1"
    /\ Field(executions, id, "status") = "pending"
    /\ Field(executions, id, "error_message") = "err"
    /\ Field(executions, id, "completed_at") = "t1"

\* C20: the step in which the execute request fails raises the error toast,
\* adds no record and issues no status fetch and no timer; and no execution
\* id is polled that has no record from a successful execute
C20_FailedExecuteStartsNothing ==
  /\ [][toasts'["error:Failed to execute workflow"]
          # toasts["error:Failed to execute workflow"] =>
          /\ toasts' = [toasts EXCEPT !["error:Failed to execute workflow"] = @ + 1]
          /\ Cardinality(execReqs') = Cardinality(execReqs) - 1
          /\ executions' = executions
          /\ fetches' = fetches
          /\ timers' = timers]_vars
  /\ [](\A id \in ExecIds : ~Idle(id) => HasRecord(executions, id))

\* one execute failed and one succeeded: one record, one chain
C20_Witness ==
  /\ toasts["error:Failed to execute workflow"] = 1
  /\ toasts["success:Workflow execution started!"] = 1
  /\ Len(executions) = 1
  /\ nExec = 2
  /\ execReqs = {}

\* C13 as stated: a tick of the 5-second interval issues a request
C13_TickIssuesRequest ==
  [][ticks' # ticks => refreshReqs' > refreshReqs]_vars

\* C13: a tick of the 5-second interval issues no request and writes nothing;
\* the executions list has two writers only, the step that caches a started
\* execution and the step that merges a poll response
C13_TickWritesNothing ==
  /\ [][ticks' # ticks => UNCHANGED <<wfVars, refreshReqs, mounted>>]_vars
  /\ [][executions' # executions =>
          \/ \E a \in ExecIds : PollOkStep(a)
          \/ toasts'["success:Workflow execution started!"]
               # toasts["success:Workflow execution started!"]]_vars

\* the interval ticked after the poller had updated a record
C13_Witness ==
  /\ ticks > 0
  /\ refreshReqs = 0
  /\ lastStatus["e1"] = "running"
  /\ Field(executions, "e1", "status") = "running"

\* C14: after the unmount the interval never ticks again; the unmount leaves
\* every armed poll timer and every status fetch in flight as it was; an armed
\* timer can still fire after the unmount; and a pending or running response
\* merged after the unmount arms the next timer
C14_UnmountKeepsPoller ==
  /\ [][~mounted => ticks' = ticks /\ ~mounted']_vars
  /\ [][mounted /\ ~mounted' => timers' = timers /\ fetches' = fetches]_vars
  /\ [](\A id \in ExecIds : (~mounted /\ timers[id] > 0) => ENABLED TimerFire(id))
  /\ [][\A id \in ExecIds :
          (~mounted /\ PollOkStep(id) /\ lastStatus'[id] \in NonTerminal) =>
            timers'[id] = timers[id] + 1]_vars

\* the only execution's timer fired after the unmount and is armed again
C14_Witness ==
  /\ ~mounted
  /\ firedUnmounted
  /\ nExec = 1
  /\ timers["e1"] = 1

\* C15: the length of the executions list never decreases; the step that
\* caches a started execution puts exactly one record in front of the list, and
\* every other step (poll merge, tick, failed execute, unmount) keeps its length
C15_RecordsAccumulate ==
  [][IF toasts'["success:Workflow execution started!"]
          # toasts["success:Workflow execution started!"]
       THEN /\ Len(executions') = Len(executions) + 1
            /\ Tail(executions') = executions
       ELSE Len(executions') = Len(executions)]_vars

\* one execute failed, one succeeded and ended, the interval ticked, the view
\* was unmounted: one record
C15_Witness ==
  /\ Len(executions) = 1
  /\ toasts["error:Failed to execute workflow"] = 1
  /\ \E id \in ExecIds : lastStatus[id] \in Terminal /\ e2e[id] # "0"
  /\ ticks > 0
  /\ ~mounted

\* C19: merging a response into the matching record gives a record whose fields
\* are those of the record and of the response, each field the response carries
\* with the response's value and every other field with the cached value, so
\* workflow_name is kept; merging the same response again changes nothing
C19_MergeFieldwiseIdempotent ==
  /\ \A n \in 1..Len(merged) :
       LET before == IF n = 1 THEN cached ELSE merged[n - 1]
           after == merged[n]
       IN  Get(before, "execution_id") = polled =>
             /\ DOMAIN after = DOMAIN before \cup DOMAIN response
             /\ \A k \in DOMAIN after :
                  after[k] = IF k \in DOMAIN response THEN response[k] ELSE before[k]
             /\ Get(after, "workflow_name") = Get(cached, "workflow_name")
  /\ \A n \in 2..Len(merged) : merged[n] = merged[1]

\* a pending record named Deploy was merged twice with a completed response
C19_Witness ==
  /\ Len(merged) = 2
  /\ polled = "e1"
  /\ Get(cached, "status") = "pending"
  /\ Get(cached, "completed_at") = UNDEFINED
  /\ Get(cached, "workflow_name") = "Deploy"
  /\ Get(merged[1], "status") = "completed"
  /\ Get(merged[1], "completed_at") = "t1"
  /\ Get(merged[2], "workflow_name") = "Deploy"

\* a record is consistent: no completed_at while pending or running,
\* error_message only when failed
RecordConsistent(rec) ==
  /\ Get(rec, "status") \in NonTerminal => Get(rec, "completed_at") = UNDEFINED
  /\ Get(rec, "error_message") # UNDEFINED => Get(rec, "status") = "failed"

C16_AllButPollNotifyAsStated ==
  lastFail.site # "none" =>
    /\ lastFail.log
    /\ lastFail.toast <=> lastFail.site # "WorkflowDashboard.pollExecutionStatus"
    /\ (~lastFail.toast /\ ~lastFail.error) =>
         lastFail.site = "WorkflowDashboard.pollExecutionStatus"

\* C16: the catch block of every failed request logs; it raises a notification
\* except in four functions that only log (the status poll and the three
\* periodic refreshes) and in the dashboard's probe, which sets the error state
C16_FiveWithoutNotification ==
  lastFail.site # "none" =>
    /\ lastFail.log
    /\ lastFail.toast <=>
         lastFail.site \notin {"WorkflowDashboard.pollExecutionStatus",
                               "APIGateway.fetchHealthChecks",
                               "APIGateway.fetchGatewayStats",
                               "EnterpriseAnalytics.fetchRealTimeMetrics",
                               "Dashboard.testConnection"}
    /\ (~lastFail.toast /\ ~lastFail.error) <=>
         lastFail.site \in {"WorkflowDashboard.pollExecutionStatus",
                            "APIGateway.fetchHealthChecks",
                            "APIGateway.fetchGatewayStats",
                            "EnterpriseAnalytics.fetchRealTimeMetrics"}

\* the gateway's health refresh failed with the status poll still in flight:
\* logged, no notification, no error state
C16_Witness ==
  /\ lastFail.site = "APIGateway.fetchHealthChecks"
  /\ lastFail.log
  /\ ~lastFail.toast
  /\ ~lastFail.error
  /\ inflight = {"WorkflowDashboard.pollExecutionStatus"}

\* C17 as stated: dashboard data is requested only after a probe that succeeded
C17_DataOnlyBehindProbeAsStated ==
  (\E r \in DataEndpoints : dataReqs[r] # "idle") => health = "ok"

\* C17: while the probe is in flight no dashboard data is requested; a failed
\* probe sets the error state with loading false and requests nothing; dashboard
\* data is requested by the step in which the probe succeeds or by Try Again;
\* and Try Again requests the data without probing again
C17_DataBehindProbeOrRetry ==
  /\ [](health = "pending" => \A r \in DataEndpoints : dataReqs[r] = "idle")
  /\ [][(health = "pending" /\ health' = "failed") =>
          /\ error' = ConnectError
          /\ ~loading'
          /\ dataReqs' = dataReqs
          /\ dashToasts' = dashToasts]_vars
  /\ [][(\E r \in DataEndpoints : dataReqs'[r] = "pending" /\ dataReqs[r] # "pending") =>
          \/ health = "pending" /\ health' = "ok"
          \/ retries' = retries + 1 /\ ~loading /\ error # NULL]_vars
  /\ [][retries' # retries =>
          /\ health' = health
          /\ loading'
          /\ \A r \in DataEndpoints : dataReqs'[r] = "pending"]_vars

\* the probe failed, Try Again loaded the dashboard
C17_Witness ==
  /\ health = "failed"
  /\ retries > 0
  /\ analytics = "data"
  /\ ~loading
  /\ error = NULL

\* C21: the step that starts an execution puts its record at the head of the
\* list while no poll response for it has been merged; and every step that
\* merges a poll response for an execution finds exactly one record of it
C21_RecordBeforeFirstMerge ==
  /\ [][toasts'["success:Workflow execution started!"]
          # toasts["success:Workflow execution started!"] =>
          /\ Len(executions') = Len(executions) + 1
          /\ Tail(executions') = executions
          /\ ~HasRecord(executions, Get(Head(executions'), "execution_id"))
          /\ Get(Head(executions'), "execution_id") \in ExecIds
          /\ lastStatus'[Get(Head(executions'), "execution_id")] = "none"
          /\ fetches'[Get(Head(executions'), "execution_id")] = 1]_vars
  /\ [][\A id \in ExecIds :
          PollOkStep(id) => Len(RecordsOf(executions, id)) = 1]_vars

\* two executions, the newer at the head, each with a poll response merged
\* into its record
C21_Witness ==
  /\ Len(executions) = 2
  /\ Get(executions[1], "execution_id") = "e2"
  /\ lastStatus["e1"] = "running"
  /\ lastStatus["e2"] = "pending"
  /\ Get(executions[2], "status") = "running"
  /\ Get(executions[1], "status") = "pending"

\* C22: the agents list changes only when GET /agents is answered or when a
\* status POST succeeds; a successful POST sets status and last_active of the
\* agents with the request's id and leaves every other agent as it was; a
\* failed POST and the click itself leave the list unchanged; the click
\* requests offline for an online agent and online for any other
C22_UpdateAfterSuccessOnly ==
  /\ [][agents' # agents =>
          \/ agentsFetch # "none" /\ agentsFetch' = "none"
          \/ \E req \in statusReqs \ statusReqs' :
               /\ agentsToast' \in {<<"Agent started successfully">>,
                                    <<"Agent stopped successfully">>}
               /\ Len(agents') = Len(agents)
               /\ \A i \in 1..Len(agents) :
                    IF agents[i].id = req.agentId
                      THEN /\ agents'[i].id = agents[i].id
                           /\ agents'[i].status = req.status
                           /\ agents'[i].last_active = Now
                      ELSE agents'[i] = agents[i]]_vars
  /\ [][(statusReqs' # statusReqs /\ statusReqs' \subseteq statusReqs
           /\ agentsToast' = <<"Failed to update agent status">>) =>
          agents' = agents]_vars
  /\ [][\A req \in statusReqs' \ statusReqs :
          /\ agents' = agents
          /\ \E i \in 1..Len(agents) :
               /\ agents[i].id = req.agentId
               /\ req.status = IF agents[i].status = "online" THEN "offline"
                               ELSE "online"]_vars

\* the idle agent a2 was started, a1 is as the inventory gave it
C22_Witness ==
  /\ agentsToast = <<"Agent started successfully">>
  /\ Len(agents) = 2
  /\ agents[1] = Agent("a1", "online")
  /\ agents[2] = [id |-> "a2", status |-> "online", last_active |-> Now]

\* C30: a failed GET /agents keeps the agents list and ends with loading
\* false; the failure notification of refreshAgents is never raised; every
\* refresh ends with refreshing false, loading false and the notification
\* 'Agent status refreshed' raised last
C30_RefreshAlwaysSucceeds ==
  /\ [][(agentsFetch # "none" /\ agentsFetch' = "none"
           /\ agentsToast' # agentsToast
           /\ Head(agentsToast')
                = "Failed to load agent data. Please check your connection.") =>
          agents' = agents /\ ~agentsLoading']_vars
  /\ [](\A n \in 1..Len(agentsToast) : agentsToast[n] # "Failed to refresh agents")
  /\ [][(refreshing /\ ~refreshing') =>
          /\ ~agentsLoading'
          /\ agentsToast'[Len(agentsToast')] = "Agent status refreshed"]_vars
  /\ [][(~refreshing /\ refreshing') => agentsLoading' /\ agentsFetch' = "refresh"]_vars

\* a refresh whose fetch failed: both notifications, the list kept
C30_Witness ==
  /\ agentsToast = <<"Failed to load agent data. Please check your connection.",
                     "Agent status refreshed">>
  /\ ~refreshing
  /\ ~agentsLoading
  /\ nRefreshes = 1
  /\ Len(agents) = 2

InList(xs, id) == \E i \in 1..Len(xs) : xs[i].id = id

DeleteNotices(kind) ==
  IF kind = "ok"
    THEN {"Project deleted successfully", "Blueprint deleted successfully"}
    ELSE {"Failed to delete project", "Failed to delete blueprint"}

\* the step in which the DELETE of req was answered
DeleteSettles(v, req, kind) ==
  /\ req \in crudReqs[v] \ crudReqs'[v]
  /\ req.kind = "delete"
  /\ crudToast'[v] \in DeleteNotices(kind)

\* C23: a cancelled delete sends no request and leaves the list; a confirmed
\* one sends the DELETE for the card's item and leaves the list; a DELETE
\* request appears only in the step of a confirmed delete; a failed DELETE
\* leaves the list, a successful one gives a list without the item
C23_DeleteAfterConfirmAndSuccess ==
  [][\A v \in Views :
       /\ (calls'[v] # calls[v] /\ calls'[v][Len(calls'[v])] = "delete:cancel") =>
            crudReqs' = crudReqs /\ lists' = lists
       /\ (calls'[v] # calls[v] /\ calls'[v][Len(calls'[v])] = "delete:ok") =>
            /\ lists' = lists
            /\ \E i \in 1..Len(lists[v]) :
                 crudReqs'[v] = crudReqs[v] \cup
                   {[kind |-> "delete", id |-> lists[v][i].id, seen |-> lists[v]]}
       /\ \A req \in crudReqs'[v] \ crudReqs[v] :
            req.kind = "delete" =>
              calls'[v] # calls[v] /\ calls'[v][Len(calls'[v])] = "delete:ok"
       /\ \A req \in crudReqs[v] :
            /\ DeleteSettles(v, req, "failed") => lists' = lists
            /\ DeleteSettles(v, req, "ok") => ~InList(lists'[v], req.id)]_vars

\* a project was deleted after one cancelled attempt; the DELETE of a
\* blueprint failed and the blueprints are all there
C23_Witness ==
  /\ calls["projects"] = <<"delete:cancel", "delete:ok">>
  /\ crudToast["projects"] = "Project deleted successfully"
  /\ Len(lists["projects"]) = 1
  /\ calls["blueprints"] = <<"delete:ok">>
  /\ crudToast["blueprints"] = "Failed to delete blueprint"
  /\ lists["blueprints"] = StoredItems

\* C24: when no POST or DELETE has failed and none is in flight, every item
\* created and not deleted is in the list and no deleted item is
C24_NoUpdateLost ==
  \A v \in Views :
    (crudReqs[v] = {} /\ ~crudFailed[v]) =>
      /\ \A id \in created[v] \ deleted[v] : InList(lists[v], id)
      /\ \A id \in deleted[v] : ~InList(lists[v], id)

SameLetter(a, b) == a = b \/ {a, b} \in {{"A", "a"}, {"B", "b"}}

\* str contains term at some position, letter case ignored
ContainsIgnoringCase(str, term) ==
  \E offset \in 0..(Len(str) - Len(term)) :
    \A k \in 1..Len(term) : SameLetter(str[offset + k], term[k])

Shown(project) ==
  /\ \/ ContainsIgnoringCase(project.name, searchTerm)
     \/ /\ "description" \in DOMAIN project
        /\ ContainsIgnoringCase(project.description, searchTerm)
  /\ filterStatus = "all" \/ project.status = filterStatus

\* C25: filteredProjects is the projects list restricted, in order, to the
\* projects whose name or description contains the search term whatever the
\* letter case and whose status is the selected one (or the selection is
\* all); with the empty term and all it is the projects list; and a change of
\* the search term or of the selection leaves the projects list as it is
C25_FilteredProjectsExact ==
  /\ [](filteredProjects = SelectSeq(lists["projects"], Shown))
  /\ []((searchTerm = <<>> /\ filterStatus = "all") =>
          filteredProjects = lists["projects"])
  /\ [][(searchTerm' # searchTerm \/ filterStatus' # filterStatus) =>
          lists' = lists]_vars

\* of two projects the second is shown: its description contains the term
\* in the other letter case and its status is the selected one
C25_Witness ==
  /\ Len(lists["projects"]) = 2
  /\ lists["projects"][1].id = "p1"
  /\ searchTerm = <<"a", "B">>
  /\ filterStatus = "planning"
  /\ filteredProjects = <<lists["projects"][2]>>
  /\ lists["projects"][2].id = "p2"

\* the id the claim describes: the characters of the lower-cased name in
\* order, every whitespace character that follows another one dropped, every
\* remaining whitespace character written as "_"
NameToId(name) ==
  LET lower == [i \in 1..Len(name) |->
                  IF name[i] = "A" THEN "a" ELSE IF name[i] = "B" THEN "b" ELSE name[i]]
      RunStart(i) == name[i] \in Whitespace /\ (i = 1 \/ name[i-1] \notin Whitespace)
      Kept == { i \in 1..Len(name) : name[i] \notin Whitespace \/ RunStart(i) }
      Rank(i) == Cardinality({ j \in Kept : j <= i })
  IN  [k \in 1..Cardinality(Kept) |->
         LET i == CHOOSE j \in Kept : Rank(j) = k
         IN  IF name[i] \in Whitespace THEN "_" ELSE lower[i]]

\* the body the claim describes for the form as it is when Add is pressed
PostedAsClaimed(body, form) ==
  /\ body.id = NameToId(form.name)
  /\ body.auth_config.auth_type = form.auth_type
  /\ body.auth_config.credentials =
       IF form.auth_type = "api_key" THEN [api_key |-> form.api_key]
                                     ELSE [token |-> form.api_key]
  /\ body.rate_limits = <<[type |-> "per_minute", limit |-> 100, window |-> 60]>>

\* C26: every body addIntegration posts carries the auth configuration and the
\* rate-limit rule (per_minute, 100, 60), its id is the lower-cased name with
\* each whitespace run replaced by "_" and its credential is stored under
\* api_key for auth_type api_key and under token otherwise; the answer of a
\* POST that succeeded closes the modal, resets the form and re-fetches the
\* list, no other step re-fetches, and the answer of a POST that failed leaves
\* the modal and the form as they are.
C26_AddIntegrationBodyAndOutcome ==
  [][ /\ \A body \in addReqs' \ addReqs : PostedAsClaimed(body, newIntegration)
      /\ (addReqs' # addReqs /\ addReqs' \subseteq addReqs
             /\ gatewayToast' = "Integration added successfully!")
           => /\ ~showAddModal'
              /\ newIntegration' = EmptyForm
              /\ integFetches' = integFetches + 1
      /\ integFetches' > integFetches
           => (addReqs' # addReqs /\ addReqs' \subseteq addReqs
                 /\ gatewayToast' = "Integration added successfully!")
      /\ (addReqs' # addReqs /\ addReqs' \subseteq addReqs
             /\ gatewayToast' = "Failed to add integration")
           => UNCHANGED <<showAddModal, newIntegration, integFetches>> ]_vars

\* a POST for the name "A \tb" with auth_type none failed, the modal is still
\* open with the form as typed, and a second POST of the same form is in flight
C26_Witness ==
  /\ gatewayToast = "Failed to add integration"
  /\ showAddModal
  /\ newIntegration.name = <<"A", " ", "\t", "b">>
  /\ newIntegration.auth_type = "none"
  /\ newIntegration.api_key = "k"
  /\ \E body \in addReqs :
       /\ body.id = <<"a", "_", "b">>
       /\ body.auth_config.credentials = [token |-> "k"]

\* C27: once every dashboard request has settled and none was rejected, the
\* displayed dashboardData is the response for the selected dashboard,
\* whatever the order in which the responses arrived.
C27_DataMatchesSelection ==
  ( /\ selectedDashboard # NULL
    /\ \A id \in DashboardIds : dashboardReqs[id] = 0
    /\ ~dashboardFailed )
  => dashboardData = DashboardResponse(selectedDashboard)

\* a string with nothing but whitespace in it
Blank(str) == \A i \in 1..Len(str) : str[i] \in Whitespace

\* a generation request settled in this step
GenerationSettles == generateReqs' # generateReqs /\ generateReqs' \subseteq generateReqs

\* C28: handleGenerateCode sends no request for a blank blueprint and one
\* request otherwise; generating is true exactly while a request is in
\* flight, whether it then succeeds or fails; showResults becomes true only
\* in the step in which a generation succeeds, and a generation that fails
\* leaves generatedCode as it was and showResults false.
C28_GenerateFlagsFollowRequest ==
  [][ /\ nGenerates' # nGenerates
           => IF Blank(blueprint)
                THEN generateReqs' = generateReqs
                ELSE generateReqs' = generateReqs \cup {blueprint} /\ generating'
      /\ generating' <=> generateReqs' # {}
      /\ showResults'
           => \/ showResults
              \/ GenerationSettles /\ aiToast' = "Code generated successfully!"
      /\ (GenerationSettles /\ aiToast' = "Code generation failed. Please try again.")
           => generatedCode' = generatedCode /\ ~showResults' /\ ~generating' ]_vars

\* a generation succeeded, a call with a blank blueprint sent
\* nothing, and a third generation failed: the earlier code is still there,
\* showResults and generating are false
C28_Witness ==
  /\ nGenerates = 3
  /\ generatedCode = "code1"
  /\ blueprint = <<"y", "\t">>
  /\ aiToast = "Code generation failed. Please try again."
  /\ ~showResults
  /\ ~generating
  /\ generateReqs = {}

\* the six views the claim lists
ClaimedViews == {"landing", "dashboard", "agents", "blueprints", "editor", "projects"}

\* C29: currentView is always one of landing, dashboard, agents, blueprints,
\* editor, projects, and none of WorkflowDashboard, AIHub, EnterpriseAnalytics,
\* APIGateway is ever rendered; Get Started moves landing to dashboard, and a
\* click on a navigation item sets that item's view and closes the sidebar.
C29_SixViewsOnly ==
  [][ /\ currentView' \in ClaimedViews
      /\ renderedViews' \cap {"WorkflowDashboard", "AIHub", "EnterpriseAnalytics",
                               "APIGateway"} = {}
      /\ (lastClick' = "getStarted" /\ currentView = "landing")
           => currentView' = "dashboard"
      /\ currentView = "landing" => currentView' \in {"landing", "dashboard"}
      /\ (lastClick' \notin {"none", "getStarted", "menu", "close", "theme"})
           => currentView' = lastClick' /\ ~sidebarOpen' ]_vars

\* every one of the six pages was shown, the last click was on Projects,
\* and the sidebar is closed
C29_Witness ==
  /\ renderedViews = {"Landing", "Dashboard", "AgentDashboard", "BlueprintCreator",
                       "CodeEditor", "ProjectGallery"}
  /\ lastClick = "projects"
  /\ currentView = "projects"
  /\ ~sidebarOpen

====
